---------------------------- MODULE Spec2Model ----------------------------
(***************************************************************************)
(* A model of oxc_ast_lower (crates/oxc_ast_lower/src/lib.rs): the pass    *)
(* that lowers the parser's AST to the HIR.                                *)
(*                                                                         *)
(* Trees are records.  Every node has a field "type" holding the name of   *)
(* its enum variant (or of its struct); the other fields carry the names   *)
(* the source uses.  Rust's Option<T> is a sequence of length 0 (None) or  *)
(* 1 (Some), a Vec<T> is a sequence.  A span is [start, end].              *)
(*                                                                         *)
(* Every lowering rule of the source is an operator of the same name; a    *)
(* call self.rule(node) in the body of a rule is self("rule", node).  A    *)
(* panic (unreachable!()) is the node Panic; Unwind carries it to the      *)
(* caller, so that a panic anywhere below a rule is the result of that     *)
(* rule, as unwinding makes it in the program.                             *)
(***************************************************************************)
EXTENDS Integers, Sequences, FiniteSets, TLC

VARIABLES
    rule,   \* the lowering rule that is invoked on this AstLower
    arg,    \* the AST node (or list of nodes) the rule is invoked with
    pc,     \* "call": invoked, not run yet; "returned"; "panicked"
    ret,    \* <<value>> once the rule has returned, <<>> otherwise
    prev    \* how the earlier builds of arg ended, each on its own AstLower

vars == <<rule, arg, pc, ret, prev>>

---------------------------------------------------------------------------
(* Option, Vec and panics *)

None == <<>>

Some(x) == <<x>>

Panic == [type |-> "Panic"]

AnyPanic(kids) == \E i \in 1..Len(kids) : kids[i].type = "Panic"

\* The node a rule builds from already lowered children: the children are
\* evaluated first, and a panic in any of them unwinds through the rule.
Unwind(kids, node) == IF AnyPanic(kids) THEN Panic ELSE node

RECURSIVE Flatten(_)
Flatten(opts) ==
    IF opts = <<>> THEN <<>> ELSE Head(opts) \o Flatten(Tail(opts))

\* self.rule(node), a call of a rule from the body of a rule; a method
\* handed to lower_vec or to Option::map is the name of the rule. The
\* rules call each other in cycles, so the calls go through one recursive
\* operator, defined after the last rule, that hands the node to the rule.
RECURSIVE self(_, _)

---------------------------------------------------------------------------
(* Identifiers and literals *)

\* A lower_identifier_reference that gives the identifier no position.
lower_identifier_reference_unplaced(ident) ==
    [type |-> "IdentifierReference", span |-> [start |-> 0, end |-> 0],
     name |-> ident.name]

lower_identifier_reference(ident) ==
    [type |-> "IdentifierReference", span |-> ident.span, name |-> ident.name]

lower_private_identifier(ident) ==
    [type |-> "PrivateIdentifier", span |-> ident.span, name |-> ident.name]

lower_label_identifier(ident) ==
    [type |-> "LabelIdentifier", span |-> ident.span, name |-> ident.name]

lower_identifier_name(ident) ==
    [type |-> "IdentifierName", span |-> ident.span, name |-> ident.name]

lower_binding_identifier(ident) ==
    [type |-> "BindingIdentifier", span |-> ident.span, name |-> ident.name]

NumberBase(base) ==
    CASE base = "Decimal" -> "Decimal"
      [] base = "Binary" -> "Binary"
      [] base = "Octal" -> "Octal"
      [] base = "Hex" -> "Hex"

lower_number_literal(lit) ==
    [type |-> "NumberLiteral", span |-> lit.span, value |-> lit.value,
     raw |-> lit.raw, base |-> NumberBase(lit.base)]

lower_boolean_literal(lit) ==
    [type |-> "BooleanLiteral", span |-> lit.span, value |-> lit.value]

lower_null_literal(lit) == [type |-> "NullLiteral", span |-> lit.span]

lower_bigint_literal(lit) ==
    [type |-> "BigintLiteral", span |-> lit.span, value |-> lit.value]

lower_string_literal(lit) ==
    [type |-> "StringLiteral", span |-> lit.span, value |-> lit.value]

lower_reg_expr_literal(lit) ==
    [type |-> "RegExpLiteral", span |-> lit.span,
     pattern |-> lit.regex.pattern, flags |-> lit.regex.flags]

lower_template_element_value(elem) ==
    [type |-> "TemplateElementValue", raw |-> elem.raw, cooked |-> elem.cooked]

lower_template_element(elem) ==
    [type |-> "TemplateElement", span |-> elem.span, tail |-> elem.tail,
     value |-> self("lower_template_element_value", elem.value)]

lower_directive(directive) ==
    [type |-> "Directive", span |-> directive.span,
     expression |-> self("lower_string_literal", directive.expression),
     directive |-> directive.directive]

---------------------------------------------------------------------------
(* Lists and statements *)

\* A lower_vec that pushes the results to the front.
lower_vec_reversed(items, cb) ==
    [i \in 1..Len(items) |-> self(cb, items[Len(items) + 1 - i])]

lower_vec(items, cb) == [i \in 1..Len(items) |-> self(cb, items[i])]

\* node.span() (GetSpan) of a statement, an expression or an assignment
\* target: a struct answers with its span, an enum with its payload's span.
RECURSIVE GetSpan(_)
GetSpan(node) ==
    CASE node.type \in {"ModuleDeclaration", "Declaration"} -> GetSpan(node.decl)
      [] node.type \in {"FunctionDeclaration", "FunctionExpression"} -> node.func.span
      [] node.type \in {"ClassDeclaration", "ClassExpression"} -> node.class.span
      [] node.type \in {"MemberExpression", "MemberAssignmentTarget"} -> node.expr.span
      [] node.type \in {"SimpleAssignmentTarget", "AssignmentTargetPattern",
                        "AssignmentTarget"} -> GetSpan(node.target)
      [] OTHER -> node.span

\* A lower_statements that fills the place of an erased statement instead
\* of dropping it.
lower_statements_filled(stmts) ==
    [i \in 1..Len(stmts) |-> self("lower_statement_or_empty", stmts[i])]

lower_statements(stmts) ==
    IF stmts = <<>> THEN <<>>
    ELSE self("lower_statement", Head(stmts)) \o self("lower_statements", Tail(stmts))

lower_program(program) ==
    LET directives == lower_vec(program.directives, "lower_directive")
        statements == self("lower_statements", program.body)
    IN  Unwind(statements,
               [type |-> "Program", span |-> program.span,
                directives |-> directives, body |-> statements])

\* A lower_statement_or_empty that gives the empty statement no position.
lower_statement_or_empty_unplaced(statement) ==
    LET lowered == self("lower_statement", statement)
    IN  IF lowered = None
        THEN [type |-> "EmptyStatement", span |-> [start |-> 0, end |-> 0]]
        ELSE lowered[1]

lower_statement_or_empty(statement) ==
    LET lowered == self("lower_statement", statement)
    IN  IF lowered = None
        THEN [type |-> "EmptyStatement", span |-> GetSpan(statement)]
        ELSE lowered[1]

lower_block(stmt) ==
    LET body == self("lower_statements", stmt.body)
    IN  Unwind(body, [type |-> "BlockStatement", span |-> stmt.span, body |-> body])

lower_block_statement(stmt) ==
    LET body == self("lower_statements", stmt.body)
    IN  Unwind(body, [type |-> "BlockStatement", span |-> stmt.span, body |-> body])

lower_break_statement(stmt) ==
    LET label == lower_vec(stmt.label, "lower_label_identifier")
    IN  [type |-> "BreakStatement", span |-> stmt.span, label |-> label]

lower_continue_statement(stmt) ==
    LET label == lower_vec(stmt.label, "lower_label_identifier")
    IN  [type |-> "ContinueStatement", span |-> stmt.span, label |-> label]

\* A lower_debugger_statement that takes debugger; for an empty statement.
lower_debugger_statement_emptied(stmt) ==
    [type |-> "EmptyStatement", span |-> stmt.span]

\* A variant that numbers the statement by the builds made before this one.
lower_debugger_statement_numbered(stmt) ==
    [type |-> "DebuggerStatement",
     span |-> [start |-> Len(prev), end |-> stmt.span.end]]

lower_debugger_statement(stmt) ==
    [type |-> "DebuggerStatement", span |-> stmt.span]

lower_do_while_statement(stmt) ==
    LET body == self("lower_statement_or_empty", stmt.body)
        test == self("lower_expression", stmt.test)
    IN  Unwind(<<body, test>>,
               [type |-> "DoWhileStatement", span |-> stmt.span,
                body |-> body, test |-> test])

lower_empty_statement(stmt) == [type |-> "EmptyStatement", span |-> stmt.span]

lower_expression_statement(stmt) ==
    LET expression == self("lower_expression", stmt.expression)
    IN  Unwind(<<expression>>,
               [type |-> "ExpressionStatement", span |-> stmt.span,
                expression |-> expression])

lower_for_statement_init(init) ==
    CASE init.type = "VariableDeclaration" ->
            LET decl == self("lower_variable_declaration", init.decl)
            IN  Unwind(<<decl>>, [type |-> "VariableDeclaration", decl |-> decl])
      [] init.type = "Expression" ->
            LET expr == self("lower_expression", init.expr)
            IN  Unwind(<<expr>>, [type |-> "Expression", expr |-> expr])

\* A lower_for_statement that writes out the test a for (;;) leaves out.
lower_for_statement_tested(stmt) ==
    LET init == lower_vec(stmt.init, "lower_for_statement_init")
        test == IF stmt.test = None
                THEN Some([type |-> "BooleanLiteral", span |-> stmt.span,
                           value |-> TRUE])
                ELSE lower_vec(stmt.test, "lower_expression")
        update == lower_vec(stmt.update, "lower_expression")
        body == self("lower_statement_or_empty", stmt.body)
    IN  Unwind(init \o test \o update \o <<body>>,
               [type |-> "ForStatement", span |-> stmt.span, init |-> init,
                test |-> test, update |-> update, body |-> body])

lower_for_statement(stmt) ==
    LET init == lower_vec(stmt.init, "lower_for_statement_init")
        test == lower_vec(stmt.test, "lower_expression")
        update == lower_vec(stmt.update, "lower_expression")
        body == self("lower_statement_or_empty", stmt.body)
    IN  Unwind(init \o test \o update \o <<body>>,
               [type |-> "ForStatement", span |-> stmt.span, init |-> init,
                test |-> test, update |-> update, body |-> body])

lower_for_statement_left(left) ==
    CASE left.type = "VariableDeclaration" ->
            LET decl == self("lower_variable_declaration", left.decl)
            IN  Unwind(<<decl>>, [type |-> "VariableDeclaration", decl |-> decl])
      [] left.type = "AssignmentTarget" ->
            LET target == self("lower_assignment_target", left.target)
            IN  Unwind(<<target>>, [type |-> "AssignmentTarget", target |-> target])

lower_for_in_statement(stmt) ==
    LET left == self("lower_for_statement_left", stmt.left)
        right == self("lower_expression", stmt.right)
        body == self("lower_statement_or_empty", stmt.body)
    IN  Unwind(<<left, right, body>>,
               [type |-> "ForInStatement", span |-> stmt.span, left |-> left,
                right |-> right, body |-> body])

lower_for_of_statement(stmt) ==
    LET left == self("lower_for_statement_left", stmt.left)
        right == self("lower_expression", stmt.right)
        body == self("lower_statement_or_empty", stmt.body)
    IN  Unwind(<<left, right, body>>,
               [type |-> "ForOfStatement", span |-> stmt.span,
                await |-> stmt.await, left |-> left, right |-> right,
                body |-> body])

lower_if_statement(stmt) ==
    LET test == self("lower_expression", stmt.test)
        consequent == self("lower_statement_or_empty", stmt.consequent)
        alternate == IF stmt.alternate = None THEN None
                     ELSE self("lower_statement", stmt.alternate[1])
    IN  Unwind(<<test, consequent>> \o alternate,
               [type |-> "IfStatement", span |-> stmt.span, test |-> test,
                consequent |-> consequent, alternate |-> alternate])

lower_labeled_statement(stmt) ==
    LET label == self("lower_label_identifier", stmt.label)
        body == self("lower_statement_or_empty", stmt.body)
    IN  Unwind(<<body>>,
               [type |-> "LabeledStatement", span |-> stmt.span,
                label |-> label, body |-> body])

lower_return_statement(stmt) ==
    LET argument == lower_vec(stmt.argument, "lower_expression")
    IN  Unwind(argument,
               [type |-> "ReturnStatement", span |-> stmt.span,
                argument |-> argument])

lower_switch_case(case) ==
    LET test == lower_vec(case.test, "lower_expression")
        consequent == self("lower_statements", case.consequent)
    IN  Unwind(test \o consequent,
               [type |-> "SwitchCase", span |-> case.span, test |-> test,
                consequent |-> consequent])

lower_switch_statement(stmt) ==
    LET discriminant == self("lower_expression", stmt.discriminant)
        cases == lower_vec(stmt.cases, "lower_switch_case")
    IN  Unwind(<<discriminant>> \o cases,
               [type |-> "SwitchStatement", span |-> stmt.span,
                discriminant |-> discriminant, cases |-> cases])

lower_throw_statement(stmt) ==
    LET argument == self("lower_expression", stmt.argument)
    IN  Unwind(<<argument>>,
               [type |-> "ThrowStatement", span |-> stmt.span,
                argument |-> argument])

lower_catch_clause(clause) ==
    LET body == self("lower_block", clause.body)
        param == lower_vec(clause.param, "lower_binding_pattern")
    IN  Unwind(<<body>> \o param,
               [type |-> "CatchClause", span |-> clause.span, param |-> param,
                body |-> body])

lower_try_statement(stmt) ==
    LET block == self("lower_block", stmt.block)
        handler == lower_vec(stmt.handler, "lower_catch_clause")
        finalizer == lower_vec(stmt.finalizer, "lower_block")
    IN  Unwind(<<block>> \o handler \o finalizer,
               [type |-> "TryStatement", span |-> stmt.span, block |-> block,
                handler |-> handler, finalizer |-> finalizer])

lower_while_statement(stmt) ==
    LET test == self("lower_expression", stmt.test)
        body == self("lower_statement_or_empty", stmt.body)
    IN  Unwind(<<test, body>>,
               [type |-> "WhileStatement", span |-> stmt.span, test |-> test,
                body |-> body])

lower_with_statement(stmt) ==
    LET object == self("lower_expression", stmt.object)
        body == self("lower_statement_or_empty", stmt.body)
    IN  Unwind(<<object, body>>,
               [type |-> "WithStatement", span |-> stmt.span,
                object |-> object, body |-> body])

lower_statement(statement) ==
    CASE statement.type = "BlockStatement" -> Some(self("lower_block_statement", statement))
      [] statement.type = "BreakStatement" -> Some(self("lower_break_statement", statement))
      [] statement.type = "ContinueStatement" -> Some(self("lower_continue_statement", statement))
      [] statement.type = "DebuggerStatement" -> Some(self("lower_debugger_statement", statement))
      [] statement.type = "DoWhileStatement" -> Some(self("lower_do_while_statement", statement))
      [] statement.type = "EmptyStatement" -> Some(self("lower_empty_statement", statement))
      [] statement.type = "ExpressionStatement" -> Some(self("lower_expression_statement", statement))
      [] statement.type = "ForInStatement" -> Some(self("lower_for_in_statement", statement))
      [] statement.type = "ForOfStatement" -> Some(self("lower_for_of_statement", statement))
      [] statement.type = "ForStatement" -> Some(self("lower_for_statement", statement))
      [] statement.type = "IfStatement" -> Some(self("lower_if_statement", statement))
      [] statement.type = "LabeledStatement" -> Some(self("lower_labeled_statement", statement))
      [] statement.type = "ReturnStatement" -> Some(self("lower_return_statement", statement))
      [] statement.type = "SwitchStatement" -> Some(self("lower_switch_statement", statement))
      [] statement.type = "ThrowStatement" -> Some(self("lower_throw_statement", statement))
      [] statement.type = "TryStatement" -> Some(self("lower_try_statement", statement))
      [] statement.type = "WhileStatement" -> Some(self("lower_while_statement", statement))
      [] statement.type = "WithStatement" -> Some(self("lower_with_statement", statement))
      [] statement.type = "ModuleDeclaration" -> self("lower_module_declaration", statement.decl)
      [] statement.type = "Declaration" ->
            LET decl == self("lower_declaration", statement.decl)
            IN  IF decl = None THEN None
                ELSE Some(Unwind(decl, [type |-> "Declaration", decl |-> decl[1]]))

---------------------------------------------------------------------------
(* Operator tables *)

AssignmentOperator(operator) ==
    CASE operator = "Assign" -> "Assign"
      [] operator = "Addition" -> "Addition"
      [] operator = "Subtraction" -> "Subtraction"
      [] operator = "Multiplication" -> "Multiplication"
      [] operator = "Division" -> "Division"
      [] operator = "Remainder" -> "Remainder"
      [] operator = "ShiftLeft" -> "ShiftLeft"
      [] operator = "ShiftRight" -> "ShiftRight"
      [] operator = "ShiftRightZeroFill" -> "ShiftRightZeroFill"
      [] operator = "BitwiseOR" -> "BitwiseOR"
      [] operator = "BitwiseXOR" -> "BitwiseXOR"
      [] operator = "BitwiseAnd" -> "BitwiseAnd"
      [] operator = "LogicalAnd" -> "LogicalAnd"
      [] operator = "LogicalOr" -> "LogicalOr"
      [] operator = "LogicalNullish" -> "LogicalNullish"
      [] operator = "Exponential" -> "Exponential"

\* An operator table that takes >>> for >>.
BinaryOperator_signed(operator) ==
    IF operator = "ShiftRightZeroFill" THEN "ShiftRight" ELSE operator

BinaryOperator(operator) ==
    CASE operator = "Equality" -> "Equality"
      [] operator = "Inequality" -> "Inequality"
      [] operator = "StrictEquality" -> "StrictEquality"
      [] operator = "StrictInequality" -> "StrictInequality"
      [] operator = "LessThan" -> "LessThan"
      [] operator = "LessEqualThan" -> "LessEqualThan"
      [] operator = "GreaterThan" -> "GreaterThan"
      [] operator = "GreaterEqualThan" -> "GreaterEqualThan"
      [] operator = "ShiftLeft" -> "ShiftLeft"
      [] operator = "ShiftRight" -> "ShiftRight"
      [] operator = "ShiftRightZeroFill" -> "ShiftRightZeroFill"
      [] operator = "Addition" -> "Addition"
      [] operator = "Subtraction" -> "Subtraction"
      [] operator = "Multiplication" -> "Multiplication"
      [] operator = "Division" -> "Division"
      [] operator = "Remainder" -> "Remainder"
      [] operator = "BitwiseOR" -> "BitwiseOR"
      [] operator = "BitwiseXOR" -> "BitwiseXOR"
      [] operator = "BitwiseAnd" -> "BitwiseAnd"
      [] operator = "In" -> "In"
      [] operator = "Instanceof" -> "Instanceof"
      [] operator = "Exponential" -> "Exponential"

LogicalOperator(operator) ==
    CASE operator = "Or" -> "Or"
      [] operator = "And" -> "And"
      [] operator = "Coalesce" -> "Coalesce"

UnaryOperator(operator) ==
    CASE operator = "UnaryNegation" -> "UnaryNegation"
      [] operator = "UnaryPlus" -> "UnaryPlus"
      [] operator = "LogicalNot" -> "LogicalNot"
      [] operator = "BitwiseNot" -> "BitwiseNot"
      [] operator = "Typeof" -> "Typeof"
      [] operator = "Void" -> "Void"
      [] operator = "Delete" -> "Delete"

UpdateOperator(operator) ==
    CASE operator = "Increment" -> "Increment"
      [] operator = "Decrement" -> "Decrement"

PropertyKind(kind) ==
    CASE kind = "Init" -> "Init"
      [] kind = "Get" -> "Get"
      [] kind = "Set" -> "Set"

---------------------------------------------------------------------------
(* Expressions *)

lower_meta_property(prop) ==
    [type |-> "MetaProperty", span |-> prop.span,
     meta |-> self("lower_identifier_name", prop.meta),
     property |-> self("lower_identifier_name", prop.property)]

lower_spread_element(elem) ==
    LET argument == self("lower_expression", elem.argument)
    IN  Unwind(<<argument>>,
               [type |-> "SpreadElement", span |-> elem.span,
                argument |-> argument])

lower_array_expression_element(elem) ==
    CASE elem.type = "SpreadElement" -> self("lower_spread_element", elem)
      [] elem.type = "Expression" ->
            LET expr == self("lower_expression", elem.expr)
            IN  Unwind(<<expr>>, [type |-> "Expression", expr |-> expr])
      [] elem.type = "Elision" -> [type |-> "Elision", span |-> elem.span]

lower_array_expression(expr) ==
    LET elements == lower_vec(expr.elements, "lower_array_expression_element")
    IN  Unwind(elements,
               [type |-> "ArrayExpression", span |-> expr.span,
                elements |-> elements,
                trailing_comma |-> expr.trailing_comma])

lower_argument(arg_) ==
    CASE arg_.type = "SpreadElement" -> self("lower_spread_element", arg_)
      [] arg_.type = "Expression" ->
            LET expr == self("lower_expression", arg_.expr)
            IN  Unwind(<<expr>>, [type |-> "Expression", expr |-> expr])

lower_assignment_expression(expr) ==
    LET operator == AssignmentOperator(expr.operator)
        left == self("lower_assignment_target", expr.left)
        right == self("lower_expression", expr.right)
    IN  Unwind(<<left, right>>,
               [type |-> "AssignmentExpression", span |-> expr.span,
                operator |-> operator, left |-> left, right |-> right])

lower_arrow_expression(expr) ==
    LET params == self("lower_formal_parameters", expr.params)
        body == self("lower_function_body", expr.body)
    IN  Unwind(<<params, body>>,
               [type |-> "ArrowFunctionExpression", span |-> expr.span,
                expression |-> expr.expression, generator |-> expr.generator,
                async |-> expr.async, params |-> params, body |-> body])

lower_await_expression(expr) ==
    LET argument == self("lower_expression", expr.argument)
    IN  Unwind(<<argument>>,
               [type |-> "AwaitExpression", span |-> expr.span,
                argument |-> argument])

lower_binary_expression(expr) ==
    LET left == self("lower_expression", expr.left)
        operator == BinaryOperator(expr.operator)
        right == self("lower_expression", expr.right)
    IN  Unwind(<<left, right>>,
               [type |-> "BinaryExpression", span |-> expr.span, left |-> left,
                operator |-> operator, right |-> right])

lower_call_expression(expr) ==
    LET callee == self("lower_expression", expr.callee)
        arguments == lower_vec(expr.arguments, "lower_argument")
    IN  Unwind(<<callee>> \o arguments,
               [type |-> "CallExpression", span |-> expr.span,
                callee |-> callee, arguments |-> arguments,
                optional |-> expr.optional])

\* A variant that hands back the member expression without its Expression
\* alternative.
lower_member_expression_bare(expr) == self("lower_member_expr", expr)

lower_member_expression(expr) ==
    LET member_expr == self("lower_member_expr", expr)
    IN  Unwind(<<member_expr>>,
               [type |-> "MemberExpression", expr |-> member_expr])

lower_chain_expression(expr) ==
    LET expression ==
            CASE expr.expression.type = "CallExpression" ->
                    LET call_expr == self("lower_call_expression", expr.expression)
                    IN  IF call_expr.type = "CallExpression"
                        THEN call_expr ELSE Panic
              [] expr.expression.type = "MemberExpression" ->
                    LET member_expr == self("lower_member_expression", expr.expression.expr)
                    IN  IF member_expr.type = "MemberExpression"
                        THEN member_expr ELSE Panic
    IN  Unwind(<<expression>>,
               [type |-> "ChainExpression", span |-> expr.span,
                expression |-> expression])

lower_class_expression(class) ==
    LET lowered == self("lower_class", class)
    IN  Unwind(<<lowered>>, [type |-> "ClassExpression", class |-> lowered])

lower_conditional_expression(expr) ==
    LET test == self("lower_expression", expr.test)
        consequent == self("lower_expression", expr.consequent)
        alternate == self("lower_expression", expr.alternate)
    IN  Unwind(<<test, consequent, alternate>>,
               [type |-> "ConditionalExpression", span |-> expr.span,
                test |-> test, consequent |-> consequent,
                alternate |-> alternate])

lower_function_expression(func) ==
    LET lowered == self("lower_function", func)
    IN  Unwind(<<lowered>>, [type |-> "FunctionExpression", func |-> lowered])

lower_import_expression(expr) ==
    LET source == self("lower_expression", expr.source)
        arguments == lower_vec(expr.arguments, "lower_expression")
    IN  Unwind(<<source>> \o arguments,
               [type |-> "ImportExpression", span |-> expr.span,
                source |-> source, arguments |-> arguments])

lower_logical_expression(expr) ==
    LET left == self("lower_expression", expr.left)
        operator == LogicalOperator(expr.operator)
        right == self("lower_expression", expr.right)
    IN  Unwind(<<left, right>>,
               [type |-> "LogicalExpression", span |-> expr.span, left |-> left,
                operator |-> operator, right |-> right])

lower_computed_member_expression(expr) ==
    LET object == self("lower_expression", expr.object)
        expression == self("lower_expression", expr.expression)
    IN  Unwind(<<object, expression>>,
               [type |-> "ComputedMemberExpression", span |-> expr.span,
                object |-> object, expression |-> expression,
                optional |-> expr.optional])

lower_static_member_expression(expr) ==
    LET object == self("lower_expression", expr.object)
        property == self("lower_identifier_name", expr.property)
    IN  Unwind(<<object>>,
               [type |-> "StaticMemberExpression", span |-> expr.span,
                object |-> object, property |-> property,
                optional |-> expr.optional])

lower_private_field_expression(expr) ==
    LET object == self("lower_expression", expr.object)
        field == self("lower_private_identifier", expr.field)
    IN  Unwind(<<object>>,
               [type |-> "PrivateFieldExpression", span |-> expr.span,
                object |-> object, field |-> field,
                optional |-> expr.optional])

lower_member_expr(expr) ==
    CASE expr.type = "ComputedMemberExpression" -> self("lower_computed_member_expression", expr)
      [] expr.type = "StaticMemberExpression" -> self("lower_static_member_expression", expr)
      [] expr.type = "PrivateFieldExpression" -> self("lower_private_field_expression", expr)

lower_new_expression(expr) ==
    LET callee == self("lower_expression", expr.callee)
        arguments == lower_vec(expr.arguments, "lower_argument")
    IN  Unwind(<<callee>> \o arguments,
               [type |-> "NewExpression", span |-> expr.span,
                callee |-> callee, arguments |-> arguments])

lower_property_key(key) ==
    CASE key.type = "Identifier" ->
            [type |-> "Identifier", ident |-> self("lower_identifier_name", key.ident)]
      [] key.type = "PrivateIdentifier" ->
            [type |-> "PrivateIdentifier",
             ident |-> self("lower_private_identifier", key.ident)]
      [] key.type = "Expression" ->
            LET expr == self("lower_expression", key.expr)
            IN  Unwind(<<expr>>, [type |-> "Expression", expr |-> expr])

lower_property_value(value) ==
    CASE value.type = "Pattern" ->
            LET pat == self("lower_binding_pattern", value.pat)
            IN  Unwind(<<pat>>, [type |-> "Pattern", pat |-> pat])
      [] value.type = "Expression" ->
            LET expr == self("lower_expression", value.expr)
            IN  Unwind(<<expr>>, [type |-> "Expression", expr |-> expr])

lower_property(prop) ==
    LET kind == PropertyKind(prop.kind)
        key == self("lower_property_key", prop.key)
        value == self("lower_property_value", prop.value)
    IN  Unwind(<<key, value>>,
               [type |-> "Property", span |-> prop.span, kind |-> kind,
                key |-> key, value |-> value, method |-> prop.method,
                shorthand |-> prop.shorthand, computed |-> prop.computed])

lower_object_property(prop) ==
    CASE prop.type = "Property" -> self("lower_property", prop)
      [] prop.type = "SpreadProperty" ->
            LET spread_element == self("lower_spread_element", prop.spread)
            IN  Unwind(<<spread_element>>,
                       [type |-> "SpreadProperty", spread |-> spread_element])

lower_object_expression(expr) ==
    LET properties == lower_vec(expr.properties, "lower_object_property")
    IN  Unwind(properties,
               [type |-> "ObjectExpression", span |-> expr.span,
                properties |-> properties,
                trailing_comma |-> expr.trailing_comma])

lower_private_in_expression(expr) ==
    LET left == self("lower_private_identifier", expr.left)
        right == self("lower_expression", expr.right)
    IN  Unwind(<<right>>,
               [type |-> "PrivateInExpression", span |-> expr.span,
                left |-> left, right |-> right])

lower_sequence_expression(expr) ==
    LET expressions == lower_vec(expr.expressions, "lower_expression")
    IN  Unwind(expressions,
               [type |-> "SequenceExpression", span |-> expr.span,
                expressions |-> expressions])

lower_template_literal(lit) ==
    LET quasis == lower_vec(lit.quasis, "lower_template_element")
        expressions == lower_vec(lit.expressions, "lower_expression")
    IN  Unwind(expressions,
               [type |-> "TemplateLiteral", span |-> lit.span,
                quasis |-> quasis, expressions |-> expressions])

lower_tagged_template_expression(expr) ==
    LET tag == self("lower_expression", expr.tag)
        quasi == self("lower_template_literal", expr.quasi)
    IN  Unwind(<<tag, quasi>>,
               [type |-> "TaggedTemplateExpression", span |-> expr.span,
                tag |-> tag, quasi |-> quasi])

lower_this_expression(expr) == [type |-> "ThisExpression", span |-> expr.span]

lower_unary_expression(expr) ==
    LET operator == UnaryOperator(expr.operator)
        argument == self("lower_expression", expr.argument)
    IN  Unwind(<<argument>>,
               [type |-> "UnaryExpression", span |-> expr.span,
                operator |-> operator, prefix |-> expr.prefix,
                argument |-> argument])

lower_update_expression(expr) ==
    LET operator == UpdateOperator(expr.operator)
        argument == self("lower_simple_assignment_target", expr.argument)
    IN  Unwind(<<argument>>,
               [type |-> "UpdateExpression", span |-> expr.span,
                operator |-> operator, prefix |-> expr.prefix,
                argument |-> argument])

lower_yield_expression(expr) ==
    LET argument == lower_vec(expr.argument, "lower_expression")
    IN  Unwind(argument,
               [type |-> "YieldExpression", span |-> expr.span,
                delegate |-> expr.delegate, argument |-> argument])

lower_super(expr) == [type |-> "Super", span |-> expr.span]

---------------------------------------------------------------------------
(* Assignment targets *)

\* A lower_assignment_target_expression that guesses a target where the
\* source has unreachable!().
lower_assignment_target_expression_guessed(expr) ==
    CASE expr.type = "Identifier" ->
            [type |-> "AssignmentTargetIdentifier", span |-> expr.span,
             name |-> expr.name]
      [] expr.type = "MemberExpression" ->
            LET member_expr == self("lower_member_expr", expr.expr)
            IN  Unwind(<<member_expr>>,
                       [type |-> "MemberAssignmentTarget", expr |-> member_expr])
      [] OTHER ->
            [type |-> "AssignmentTargetIdentifier", span |-> expr.span,
             name |-> "void"]

\* A lower_assignment_target_expression that hands the identifier back as
\* the reference it is.
lower_assignment_target_expression_untagged(expr) ==
    CASE expr.type = "Identifier" -> self("lower_identifier_reference", expr)
      [] expr.type = "MemberExpression" ->
            LET member_expr == self("lower_member_expr", expr.expr)
            IN  Unwind(<<member_expr>>,
                       [type |-> "MemberAssignmentTarget", expr |-> member_expr])
      [] OTHER -> Panic

lower_assignment_target_expression(expr) ==
    CASE expr.type = "Identifier" ->
            LET ident == self("lower_identifier_reference", expr)
            IN  [ident EXCEPT !.type = "AssignmentTargetIdentifier"]
      [] expr.type = "MemberExpression" ->
            LET member_expr == self("lower_member_expr", expr.expr)
            IN  Unwind(<<member_expr>>,
                       [type |-> "MemberAssignmentTarget", expr |-> member_expr])
      [] OTHER -> Panic

lower_simple_assignment_target(target) ==
    CASE target.type = "AssignmentTargetIdentifier" ->
            LET ident == self("lower_identifier_reference", target)
            IN  [ident EXCEPT !.type = "AssignmentTargetIdentifier"]
      [] target.type = "MemberAssignmentTarget" ->
            LET member_expr == self("lower_member_expr", target.expr)
            IN  Unwind(<<member_expr>>,
                       [type |-> "MemberAssignmentTarget", expr |-> member_expr])
      [] target.type = "TSAsExpression" ->
            self("lower_assignment_target_expression", target.expression)
      [] target.type = "TSSatisfiesExpression" ->
            self("lower_assignment_target_expression", target.expression)
      [] target.type = "TSNonNullExpression" ->
            self("lower_assignment_target_expression", target.expression)
      [] target.type = "TSTypeAssertion" ->
            self("lower_assignment_target_expression", target.expression)

lower_assignment_target_with_default(target) ==
    LET binding == self("lower_assignment_target", target.binding)
        init == self("lower_expression", target.init)
    IN  Unwind(<<binding, init>>,
               [type |-> "AssignmentTargetWithDefault", span |-> target.span,
                binding |-> binding, init |-> init])

lower_assignment_target_maybe_default(target) ==
    CASE target.type = "AssignmentTarget" ->
            LET lowered == self("lower_assignment_target", target.target)
            IN  Unwind(<<lowered>>,
                       [type |-> "AssignmentTarget", target |-> lowered])
      [] target.type = "AssignmentTargetWithDefault" ->
            self("lower_assignment_target_with_default", target)

lower_array_assignment_target(target) ==
    LET elements == [i \in 1..Len(target.elements) |->
                        lower_vec(target.elements[i],
                                  "lower_assignment_target_maybe_default")]
        rest == lower_vec(target.rest, "lower_assignment_target")
    IN  Unwind(Flatten(elements) \o rest,
               [type |-> "ArrayAssignmentTarget", span |-> target.span,
                elements |-> elements, rest |-> rest,
                trailing_comma |-> target.trailing_comma])

lower_assignment_target_property_identifier(ident) ==
    LET binding == self("lower_identifier_reference", ident.binding)
        init == lower_vec(ident.init, "lower_expression")
    IN  Unwind(init,
               [type |-> "AssignmentTargetPropertyIdentifier",
                span |-> ident.span, binding |-> binding, init |-> init])

lower_assignment_target_property_property(property) ==
    LET name == self("lower_property_key", property.name)
        binding == self("lower_assignment_target_maybe_default", property.binding)
    IN  Unwind(<<name, binding>>,
               [type |-> "AssignmentTargetPropertyProperty",
                span |-> property.span, name |-> name, binding |-> binding])

lower_assignment_target_property(property) ==
    CASE property.type = "AssignmentTargetPropertyIdentifier" ->
            self("lower_assignment_target_property_identifier", property)
      [] property.type = "AssignmentTargetPropertyProperty" ->
            self("lower_assignment_target_property_property", property)

lower_object_assignment_target(target) ==
    LET properties == lower_vec(target.properties, "lower_assignment_target_property")
        rest == lower_vec(target.rest, "lower_assignment_target")
    IN  Unwind(properties \o rest,
               [type |-> "ObjectAssignmentTarget", span |-> target.span,
                properties |-> properties, rest |-> rest])

lower_assignment_target_pattern(pat) ==
    CASE pat.type = "ArrayAssignmentTarget" -> self("lower_array_assignment_target", pat)
      [] pat.type = "ObjectAssignmentTarget" -> self("lower_object_assignment_target", pat)

lower_assignment_target(target) ==
    CASE target.type = "SimpleAssignmentTarget" ->
            LET lowered == self("lower_simple_assignment_target", target.target)
            IN  Unwind(<<lowered>>,
                       [type |-> "SimpleAssignmentTarget", target |-> lowered])
      [] target.type = "AssignmentTargetPattern" ->
            LET lowered == self("lower_assignment_target_pattern", target.target)
            IN  Unwind(<<lowered>>,
                       [type |-> "AssignmentTargetPattern", target |-> lowered])

---------------------------------------------------------------------------
(* Binding patterns *)

lower_rest_element(pat) ==
    LET argument == self("lower_binding_pattern", pat.argument)
    IN  Unwind(<<argument>>,
               [type |-> "RestElement", span |-> pat.span,
                argument |-> argument])

lower_object_pattern_property(prop) ==
    CASE prop.type = "Property" -> self("lower_property", prop)
      [] prop.type = "RestElement" -> self("lower_rest_element", prop)

lower_object_pattern(pat) ==
    LET properties == lower_vec(pat.properties, "lower_object_pattern_property")
    IN  Unwind(properties,
               [type |-> "ObjectPattern", span |-> pat.span,
                properties |-> properties])

\* A lower_array_pattern that closes the holes up.
lower_array_pattern_compacted(pat) ==
    LET elements == lower_vec(Flatten(pat.elements), "lower_binding_pattern")
    IN  Unwind(elements,
               [type |-> "ArrayPattern", span |-> pat.span,
                elements |-> [i \in 1..Len(elements) |-> Some(elements[i])]])

lower_array_pattern(pat) ==
    LET elements == [i \in 1..Len(pat.elements) |->
                        lower_vec(pat.elements[i], "lower_binding_pattern")]
    IN  Unwind(Flatten(elements),
               [type |-> "ArrayPattern", span |-> pat.span,
                elements |-> elements])

lower_assignment_pattern(pat) ==
    LET left == self("lower_binding_pattern", pat.left)
        right == self("lower_expression", pat.right)
    IN  Unwind(<<left, right>>,
               [type |-> "AssignmentPattern", span |-> pat.span, left |-> left,
                right |-> right])

lower_binding_pattern(pat) ==
    CASE pat.type = "BindingIdentifier" -> self("lower_binding_identifier", pat)
      [] pat.type = "ObjectPattern" -> self("lower_object_pattern", pat)
      [] pat.type = "ArrayPattern" -> self("lower_array_pattern", pat)
      [] pat.type = "RestElement" -> self("lower_rest_element", pat)
      [] pat.type = "AssignmentPattern" -> self("lower_assignment_pattern", pat)

---------------------------------------------------------------------------
(* The expression dispatcher *)

\* JSX arms that lower the children before they answer.
lower_jsx_children(elem) ==
    LET children == lower_vec(elem.children, "lower_expression")
    IN  Unwind(children,
               [type |-> "Identifier", span |-> elem.span, name |-> "void"])

\* The arms of lower_expression for JSXElement and JSXFragment (TODO:
\* implement JSX): an identifier reference named "void" at the node's span.
lower_jsx(elem) ==
    LET ident == [type |-> "IdentifierReference", span |-> elem.span,
                  name |-> "void"]
    IN  [ident EXCEPT !.type = "Identifier"]

\* Wrapper arms that keep a node for the wrapper.
lower_trimmed_kept(expr) ==
    LET expression == self("lower_expression", expr.expression)
    IN  Unwind(<<expression>>,
               [type |-> expr.type, span |-> expr.span,
                expression |-> expression])

\* The arms of lower_expression under "Syntax trimmed for the following
\* expressions": the lowering of the wrapped expression, and no node.
lower_trimmed(expr) == self("lower_expression", expr.expression)

lower_expression(expr) ==
    CASE expr.type = "BigintLiteral" -> self("lower_bigint_literal", expr)
      [] expr.type = "BooleanLiteral" -> self("lower_boolean_literal", expr)
      [] expr.type = "NullLiteral" -> self("lower_null_literal", expr)
      [] expr.type = "NumberLiteral" -> self("lower_number_literal", expr)
      [] expr.type = "RegExpLiteral" -> self("lower_reg_expr_literal", expr)
      [] expr.type = "StringLiteral" -> self("lower_string_literal", expr)
      [] expr.type = "TemplateLiteral" -> self("lower_template_literal", expr)
      [] expr.type = "Identifier" ->
            LET lit == self("lower_identifier_reference", expr)
            IN  [lit EXCEPT !.type = "Identifier"]
      [] expr.type = "MetaProperty" -> self("lower_meta_property", expr)
      [] expr.type = "ArrayExpression" -> self("lower_array_expression", expr)
      [] expr.type = "ArrowFunctionExpression" -> self("lower_arrow_expression", expr)
      [] expr.type = "AssignmentExpression" -> self("lower_assignment_expression", expr)
      [] expr.type = "AwaitExpression" -> self("lower_await_expression", expr)
      [] expr.type = "BinaryExpression" -> self("lower_binary_expression", expr)
      [] expr.type = "CallExpression" -> self("lower_call_expression", expr)
      [] expr.type = "ChainExpression" -> self("lower_chain_expression", expr)
      [] expr.type = "ClassExpression" -> self("lower_class_expression", expr.class)
      [] expr.type = "ConditionalExpression" -> self("lower_conditional_expression", expr)
      [] expr.type = "FunctionExpression" -> self("lower_function_expression", expr.func)
      [] expr.type = "ImportExpression" -> self("lower_import_expression", expr)
      [] expr.type = "LogicalExpression" -> self("lower_logical_expression", expr)
      [] expr.type = "MemberExpression" -> self("lower_member_expression", expr.expr)
      [] expr.type = "NewExpression" -> self("lower_new_expression", expr)
      [] expr.type = "ObjectExpression" -> self("lower_object_expression", expr)
      [] expr.type = "PrivateInExpression" -> self("lower_private_in_expression", expr)
      [] expr.type = "SequenceExpression" -> self("lower_sequence_expression", expr)
      [] expr.type = "TaggedTemplateExpression" ->
            self("lower_tagged_template_expression", expr)
      [] expr.type = "ThisExpression" -> self("lower_this_expression", expr)
      [] expr.type = "UnaryExpression" -> self("lower_unary_expression", expr)
      [] expr.type = "UpdateExpression" -> self("lower_update_expression", expr)
      [] expr.type = "YieldExpression" -> self("lower_yield_expression", expr)
      [] expr.type = "Super" -> self("lower_super", expr)
      [] expr.type = "JSXElement" -> lower_jsx(expr)
      [] expr.type = "JSXFragment" -> lower_jsx(expr)
      [] expr.type = "ParenthesizedExpression" -> lower_trimmed(expr)
      [] expr.type = "TSAsExpression" -> lower_trimmed(expr)
      [] expr.type = "TSSatisfiesExpression" -> lower_trimmed(expr)
      [] expr.type = "TSNonNullExpression" -> lower_trimmed(expr)
      [] expr.type = "TSTypeAssertion" -> lower_trimmed(expr)
      [] expr.type = "TSInstantiationExpression" -> lower_trimmed(expr)

---------------------------------------------------------------------------
(* Declarations, functions and classes *)

\* A lower_ts_enum_declaration that lowers the enum.
lower_ts_enum_declaration_kept(decl) ==
    Some([type |-> "TSEnumDeclaration", span |-> decl.span, id |-> decl.id])

lower_ts_enum_declaration(decl) == None

lower_ts_import_equals_declaration(decl) == None

lower_decorator(decorator) ==
    LET expression == self("lower_expression", decorator.expression)
    IN  Unwind(<<expression>>,
               [type |-> "Decorator", span |-> decorator.span,
                expression |-> expression])

VariableDeclarationKind(kind) ==
    CASE kind = "Var" -> "Var"
      [] kind = "Const" -> "Const"
      [] kind = "Let" -> "Let"

lower_variable_declarator_plain(decl) ==
    LET kind == VariableDeclarationKind(decl.kind)
        id == self("lower_binding_pattern", decl.id)
        init == lower_vec(decl.init, "lower_expression")
    IN  Unwind(<<id>> \o init,
               [type |-> "VariableDeclarator", span |-> decl.span,
                kind |-> kind, id |-> id, init |-> init,
                definite |-> FALSE])

lower_variable_declarator(decl) ==
    LET kind == VariableDeclarationKind(decl.kind)
        id == self("lower_binding_pattern", decl.id)
        init == lower_vec(decl.init, "lower_expression")
    IN  Unwind(<<id>> \o init,
               [type |-> "VariableDeclarator", span |-> decl.span,
                kind |-> kind, id |-> id, init |-> init,
                definite |-> decl.definite])

lower_variable_declaration(decl) ==
    LET kind == VariableDeclarationKind(decl.kind)
        declarations == lower_vec(decl.declarations, "lower_variable_declarator")
    IN  Unwind(declarations,
               [type |-> "VariableDeclaration", span |-> decl.span,
                kind |-> kind, declarations |-> declarations])

FunctionType(type) ==
    CASE type = "FunctionDeclaration" -> "FunctionDeclaration"
      [] type = "FunctionExpression" -> "FunctionExpression"
      [] type = "TSDeclareFunction" -> "TSDeclareFunction"

lower_function_body(body) ==
    LET directives == lower_vec(body.directives, "lower_directive")
        statements == self("lower_statements", body.statements)
    IN  Unwind(statements,
               [type |-> "FunctionBody", span |-> body.span,
                directives |-> directives, statements |-> statements])

FormalParameterKind(kind) ==
    CASE kind = "FormalParameter" -> "FormalParameter"
      [] kind = "UniqueFormalParameters" -> "UniqueFormalParameters"
      [] kind = "ArrowFormalParameters" -> "ArrowFormalParameters"
      [] kind = "Signature" -> "Signature"

lower_formal_parameter(param) ==
    LET pattern == self("lower_binding_pattern", param.pattern)
        decorators == lower_vec(param.decorators, "lower_decorator")
    IN  Unwind(<<pattern>> \o decorators,
               [type |-> "FormalParameter", span |-> param.span,
                pattern |-> pattern, decorators |-> decorators])

lower_formal_parameters(params) ==
    LET kind == FormalParameterKind(params.kind)
        items == lower_vec(params.items, "lower_formal_parameter")
    IN  Unwind(items,
               [type |-> "FormalParameters", span |-> params.span,
                kind |-> kind, items |-> items])

lower_function_swapped(func) ==
    LET type == FunctionType(func.type)
        id == lower_vec(func.id, "lower_binding_identifier")
        params == self("lower_formal_parameters", func.params)
        body == lower_vec(func.body, "lower_function_body")
    IN  Unwind(<<params>> \o body,
               [type |-> type, span |-> func.span, id |-> id,
                expression |-> func.expression, generator |-> func.async,
                async |-> func.generator, params |-> params, body |-> body])

lower_function(func) ==
    LET type == FunctionType(func.type)
        id == lower_vec(func.id, "lower_binding_identifier")
        params == self("lower_formal_parameters", func.params)
        body == lower_vec(func.body, "lower_function_body")
    IN  Unwind(<<params>> \o body,
               [type |-> type, span |-> func.span, id |-> id,
                expression |-> func.expression, generator |-> func.generator,
                async |-> func.async, params |-> params, body |-> body])

lower_static_block(block) ==
    LET body == self("lower_statements", block.body)
    IN  Unwind(body, [type |-> "StaticBlock", span |-> block.span, body |-> body])

MethodDefinitionKind(kind) ==
    CASE kind = "Constructor" -> "Constructor"
      [] kind = "Method" -> "Method"
      [] kind = "Get" -> "Get"
      [] kind = "Set" -> "Set"

lower_method_definition(def) ==
    LET key == self("lower_property_key", def.key)
        value == self("lower_function", def.value)
        kind == MethodDefinitionKind(def.kind)
        decorators == lower_vec(def.decorators, "lower_decorator")
    IN  Unwind(<<key, value>> \o decorators,
               [type |-> "MethodDefinition", span |-> def.span, key |-> key,
                value |-> value, kind |-> kind, computed |-> def.computed,
                static |-> def.static, override |-> def.override,
                optional |-> def.optional, decorators |-> decorators])

lower_property_definition(def) ==
    LET key == self("lower_property_key", def.key)
        value == lower_vec(def.value, "lower_expression")
        decorators == lower_vec(def.decorators, "lower_decorator")
    IN  Unwind(<<key>> \o value \o decorators,
               [type |-> "PropertyDefinition", span |-> def.span, key |-> key,
                value |-> value, computed |-> def.computed,
                static |-> def.static, declare |-> def.declare,
                override |-> def.override, optional |-> def.optional,
                definite |-> def.definite, readonly |-> def.readonly,
                decorators |-> decorators])

lower_accessor_property(def) ==
    LET key == self("lower_property_key", def.key)
        value == lower_vec(def.value, "lower_expression")
    IN  Unwind(<<key>> \o value,
               [type |-> "AccessorProperty", span |-> def.span, key |-> key,
                value |-> value, computed |-> def.computed,
                static |-> def.static])

\* A lower_class_element for which a member without a lowering is an error.
lower_class_element_strict(elem) ==
    CASE elem.type = "StaticBlock" -> Some(self("lower_static_block", elem))
      [] elem.type = "MethodDefinition" -> Some(self("lower_method_definition", elem))
      [] elem.type = "PropertyDefinition" -> Some(self("lower_property_definition", elem))
      [] elem.type = "AccessorProperty" -> Some(self("lower_accessor_property", elem))
      [] OTHER -> Some(Panic)

\* A lower_class_element that drops a static block left with no statement.
lower_class_element_propagating(elem) ==
    CASE elem.type = "StaticBlock" ->
            LET block == self("lower_static_block", elem)
            IN  IF block.body = <<>> THEN None ELSE Some(block)
      [] elem.type = "MethodDefinition" -> Some(self("lower_method_definition", elem))
      [] elem.type = "PropertyDefinition" -> Some(self("lower_property_definition", elem))
      [] elem.type = "AccessorProperty" -> Some(self("lower_accessor_property", elem))
      [] elem.type \in {"TSAbstractMethodDefinition",
                        "TSAbstractPropertyDefinition",
                        "TSIndexSignature"} -> None

lower_class_element(elem) ==
    CASE elem.type = "StaticBlock" -> Some(self("lower_static_block", elem))
      [] elem.type = "MethodDefinition" -> Some(self("lower_method_definition", elem))
      [] elem.type = "PropertyDefinition" -> Some(self("lower_property_definition", elem))
      [] elem.type = "AccessorProperty" -> Some(self("lower_accessor_property", elem))
      [] elem.type \in {"TSAbstractMethodDefinition",
                        "TSAbstractPropertyDefinition",
                        "TSIndexSignature"} -> None

\* A lower_class_body that collects the members last to first.
lower_class_body_reversed(class_body) ==
    LET n == Len(class_body.body)
        body == Flatten([i \in 1..n |->
                            self("lower_class_element", class_body.body[n + 1 - i])])
    IN  Unwind(body, [type |-> "ClassBody", span |-> class_body.span, body |-> body])

lower_class_body(class_body) ==
    LET body == Flatten([i \in 1..Len(class_body.body) |->
                            self("lower_class_element", class_body.body[i])])
    IN  Unwind(body, [type |-> "ClassBody", span |-> class_body.span, body |-> body])

ClassType(type) ==
    CASE type = "ClassDeclaration" -> "ClassDeclaration"
      [] type = "ClassExpression" -> "ClassExpression"

lower_class(class) ==
    LET type == ClassType(class.type)
        id == lower_vec(class.id, "lower_binding_identifier")
        super_class == lower_vec(class.super_class, "lower_expression")
        body == self("lower_class_body", class.body)
        decorators == lower_vec(class.decorators, "lower_decorator")
    IN  Unwind(super_class \o <<body>> \o decorators,
               [type |-> type, span |-> class.span, id |-> id,
                super_class |-> super_class, body |-> body,
                decorators |-> decorators])

\* A lower_declaration that hands the TypeScript declarations of its last
\* arm on as they are.
lower_declaration_passing(decl) ==
    CASE decl.type = "VariableDeclaration" -> Some(self("lower_variable_declaration", decl))
      [] decl.type = "FunctionDeclaration" ->
            LET func == self("lower_function", decl.func)
            IN  Some(Unwind(<<func>>, [type |-> "FunctionDeclaration", func |-> func]))
      [] decl.type = "ClassDeclaration" ->
            LET class == self("lower_class", decl.class)
            IN  Some(Unwind(<<class>>, [type |-> "ClassDeclaration", class |-> class]))
      [] decl.type = "TSEnumDeclaration" -> self("lower_ts_enum_declaration", decl)
      [] decl.type = "TSImportEqualsDeclaration" ->
            self("lower_ts_import_equals_declaration", decl)
      [] OTHER -> Some(decl)

lower_declaration(decl) ==
    CASE decl.type = "VariableDeclaration" -> Some(self("lower_variable_declaration", decl))
      [] decl.type = "FunctionDeclaration" ->
            LET func == self("lower_function", decl.func)
            IN  Some(Unwind(<<func>>, [type |-> "FunctionDeclaration", func |-> func]))
      [] decl.type = "ClassDeclaration" ->
            LET class == self("lower_class", decl.class)
            IN  Some(Unwind(<<class>>, [type |-> "ClassDeclaration", class |-> class]))
      [] decl.type = "TSEnumDeclaration" -> self("lower_ts_enum_declaration", decl)
      [] decl.type = "TSImportEqualsDeclaration" ->
            self("lower_ts_import_equals_declaration", decl)
      [] OTHER -> None

---------------------------------------------------------------------------
(* Modules *)

ImportOrExportKind_value(kind) == "Value"

ImportOrExportKind(kind) ==
    CASE kind = "Value" -> "Value"
      [] kind = "Type" -> "Type"

lower_module_export_name(name) ==
    CASE name.type = "Identifier" ->
            [type |-> "Identifier", ident |-> self("lower_identifier_name", name.ident)]
      [] name.type = "StringLiteral" ->
            [type |-> "StringLiteral", lit |-> self("lower_string_literal", name.lit)]

lower_import_attribute(attribute) ==
    LET key == CASE attribute.key.type = "Identifier" ->
                    [type |-> "Identifier",
                     ident |-> self("lower_identifier_name", attribute.key.ident)]
                 [] attribute.key.type = "StringLiteral" ->
                    [type |-> "StringLiteral",
                     lit |-> self("lower_string_literal", attribute.key.lit)]
        value == self("lower_string_literal", attribute.value)
    IN  [type |-> "ImportAttribute", span |-> attribute.span, key |-> key,
         value |-> value]

lower_import_specifier(specifier) ==
    [type |-> "ImportSpecifier", span |-> specifier.span,
     imported |-> self("lower_module_export_name", specifier.imported),
     local |-> self("lower_binding_identifier", specifier.local)]

lower_import_default_specifier(specifier) ==
    [type |-> "ImportDefaultSpecifier", span |-> specifier.span,
     local |-> self("lower_binding_identifier", specifier.local)]

lower_import_name_specifier(specifier) ==
    [type |-> "ImportNamespaceSpecifier", span |-> specifier.span,
     local |-> self("lower_binding_identifier", specifier.local)]

lower_import_declaration_specifier(specifier) ==
    CASE specifier.type = "ImportSpecifier" -> self("lower_import_specifier", specifier)
      [] specifier.type = "ImportDefaultSpecifier" ->
            self("lower_import_default_specifier", specifier)
      [] specifier.type = "ImportNamespaceSpecifier" ->
            self("lower_import_name_specifier", specifier)

\* Option<Vec<ImportAttribute>>: the lowered list, under the same Option.
lower_assertions(assertions) ==
    [i \in 1..Len(assertions) |-> lower_vec(assertions[i], "lower_import_attribute")]

lower_import_declaration(decl) ==
    LET specifiers == lower_vec(decl.specifiers, "lower_import_declaration_specifier")
        source == self("lower_string_literal", decl.source)
        assertions == lower_assertions(decl.assertions)
        import_kind == ImportOrExportKind(decl.import_kind)
    IN  [type |-> "ImportDeclaration", span |-> decl.span,
         specifiers |-> specifiers, source |-> source,
         assertions |-> assertions, import_kind |-> import_kind]

lower_export_all_declaration(decl) ==
    LET exported == lower_vec(decl.exported, "lower_module_export_name")
        source == self("lower_string_literal", decl.source)
        assertions == lower_assertions(decl.assertions)
        export_kind == ImportOrExportKind(decl.export_kind)
    IN  [type |-> "ExportAllDeclaration", span |-> decl.span,
         exported |-> exported, source |-> source,
         assertions |-> assertions, export_kind |-> export_kind]

\* A lower_export_default_declaration that keeps the export of an interface.
lower_export_default_declaration_kept(decl) ==
    LET kind == decl.declaration
        declaration ==
            CASE kind.type = "Expression" ->
                    LET expr == self("lower_expression", kind.expr)
                    IN  Some(Unwind(<<expr>>, [type |-> "Expression", expr |-> expr]))
              [] kind.type = "FunctionDeclaration" ->
                    LET func == self("lower_function", kind.func)
                    IN  Some(Unwind(<<func>>,
                                    [type |-> "FunctionDeclaration", func |-> func]))
              [] kind.type = "ClassDeclaration" ->
                    LET class == self("lower_class", kind.class)
                    IN  Some(Unwind(<<class>>,
                                    [type |-> "ClassDeclaration", class |-> class]))
              [] kind.type = "TSEnumDeclaration" -> self("lower_ts_enum_declaration", kind)
              [] kind.type = "TSInterfaceDeclaration" -> Some(kind)
    IN  IF declaration = None THEN None
        ELSE LET exported == self("lower_module_export_name", decl.exported)
             IN  Some(Unwind(declaration,
                             [type |-> "ExportDefaultDeclaration",
                              span |-> decl.span,
                              declaration |-> declaration[1],
                              exported |-> exported]))

\* None when the export is erased (the ? and the return None of the source).
lower_export_default_declaration(decl) ==
    LET kind == decl.declaration
        declaration ==
            CASE kind.type = "Expression" ->
                    LET expr == self("lower_expression", kind.expr)
                    IN  Some(Unwind(<<expr>>, [type |-> "Expression", expr |-> expr]))
              [] kind.type = "FunctionDeclaration" ->
                    LET func == self("lower_function", kind.func)
                    IN  Some(Unwind(<<func>>,
                                    [type |-> "FunctionDeclaration", func |-> func]))
              [] kind.type = "ClassDeclaration" ->
                    LET class == self("lower_class", kind.class)
                    IN  Some(Unwind(<<class>>,
                                    [type |-> "ClassDeclaration", class |-> class]))
              [] kind.type = "TSEnumDeclaration" -> self("lower_ts_enum_declaration", kind)
              [] kind.type = "TSInterfaceDeclaration" -> None
    IN  IF declaration = None THEN None
        ELSE LET exported == self("lower_module_export_name", decl.exported)
             IN  Some(Unwind(declaration,
                             [type |-> "ExportDefaultDeclaration",
                              span |-> decl.span,
                              declaration |-> declaration[1],
                              exported |-> exported]))

lower_export_specifier(specifier) ==
    [type |-> "ExportSpecifier", span |-> specifier.span,
     local |-> self("lower_module_export_name", specifier.local),
     exported |-> self("lower_module_export_name", specifier.exported)]

lower_export_named_declaration_bare(decl) ==
    LET declaration == None
        specifiers == lower_vec(decl.specifiers, "lower_export_specifier")
        source == lower_vec(decl.source, "lower_string_literal")
        export_kind == ImportOrExportKind(decl.export_kind)
    IN  Unwind(declaration,
               [type |-> "ExportNamedDeclaration", span |-> decl.span,
                declaration |-> declaration, specifiers |-> specifiers,
                source |-> source, export_kind |-> export_kind])

lower_export_named_declaration(decl) ==
    LET declaration == IF decl.declaration = None THEN None
                       ELSE self("lower_declaration", decl.declaration[1])
        specifiers == lower_vec(decl.specifiers, "lower_export_specifier")
        source == lower_vec(decl.source, "lower_string_literal")
        export_kind == ImportOrExportKind(decl.export_kind)
    IN  Unwind(declaration,
               [type |-> "ExportNamedDeclaration", span |-> decl.span,
                declaration |-> declaration, specifiers |-> specifiers,
                source |-> source, export_kind |-> export_kind])

\* A lower_module_declaration that leaves an empty statement for the TS
\* export forms.
lower_module_declaration_replaced(decl) ==
    CASE decl.type = "ImportDeclaration" ->
            Some([type |-> "ModuleDeclaration", decl |-> self("lower_import_declaration", decl)])
      [] decl.type = "ExportAllDeclaration" ->
            Some([type |-> "ModuleDeclaration",
                  decl |-> self("lower_export_all_declaration", decl)])
      [] decl.type = "ExportDefaultDeclaration" ->
            LET lowered == self("lower_export_default_declaration", decl)
            IN  IF lowered = None THEN None
                ELSE Some(Unwind(lowered,
                                 [type |-> "ModuleDeclaration", decl |-> lowered[1]]))
      [] decl.type = "ExportNamedDeclaration" ->
            LET lowered == self("lower_export_named_declaration", decl)
            IN  Some(Unwind(<<lowered>>,
                            [type |-> "ModuleDeclaration", decl |-> lowered]))
      [] decl.type \in {"TSExportAssignment", "TSNamespaceExportDeclaration"} ->
            Some([type |-> "EmptyStatement", span |-> decl.span])

lower_module_declaration(decl) ==
    CASE decl.type = "ImportDeclaration" ->
            Some([type |-> "ModuleDeclaration", decl |-> self("lower_import_declaration", decl)])
      [] decl.type = "ExportAllDeclaration" ->
            Some([type |-> "ModuleDeclaration",
                  decl |-> self("lower_export_all_declaration", decl)])
      [] decl.type = "ExportDefaultDeclaration" ->
            LET lowered == self("lower_export_default_declaration", decl)
            IN  IF lowered = None THEN None
                ELSE Some(Unwind(lowered,
                                 [type |-> "ModuleDeclaration", decl |-> lowered[1]]))
      [] decl.type = "ExportNamedDeclaration" ->
            LET lowered == self("lower_export_named_declaration", decl)
            IN  Some(Unwind(<<lowered>>,
                            [type |-> "ModuleDeclaration", decl |-> lowered]))
      [] decl.type \in {"TSExportAssignment", "TSNamespaceExportDeclaration"} ->
            None

---------------------------------------------------------------------------
(* Calls between the rules *)

self(rule_, node) ==
    CASE rule_ = "lower_identifier_reference" -> lower_identifier_reference(node)
      [] rule_ = "lower_private_identifier" -> lower_private_identifier(node)
      [] rule_ = "lower_label_identifier" -> lower_label_identifier(node)
      [] rule_ = "lower_identifier_name" -> lower_identifier_name(node)
      [] rule_ = "lower_binding_identifier" -> lower_binding_identifier(node)
      [] rule_ = "lower_number_literal" -> lower_number_literal(node)
      [] rule_ = "lower_boolean_literal" -> lower_boolean_literal(node)
      [] rule_ = "lower_null_literal" -> lower_null_literal(node)
      [] rule_ = "lower_bigint_literal" -> lower_bigint_literal(node)
      [] rule_ = "lower_string_literal" -> lower_string_literal(node)
      [] rule_ = "lower_reg_expr_literal" -> lower_reg_expr_literal(node)
      [] rule_ = "lower_template_element_value" -> lower_template_element_value(node)
      [] rule_ = "lower_template_element" -> lower_template_element(node)
      [] rule_ = "lower_directive" -> lower_directive(node)
      [] rule_ = "lower_statements" -> lower_statements(node)
      [] rule_ = "lower_program" -> lower_program(node)
      [] rule_ = "lower_statement_or_empty" -> lower_statement_or_empty(node)
      [] rule_ = "lower_block" -> lower_block(node)
      [] rule_ = "lower_block_statement" -> lower_block_statement(node)
      [] rule_ = "lower_break_statement" -> lower_break_statement(node)
      [] rule_ = "lower_continue_statement" -> lower_continue_statement(node)
      [] rule_ = "lower_debugger_statement" -> lower_debugger_statement(node)
      [] rule_ = "lower_do_while_statement" -> lower_do_while_statement(node)
      [] rule_ = "lower_empty_statement" -> lower_empty_statement(node)
      [] rule_ = "lower_expression_statement" -> lower_expression_statement(node)
      [] rule_ = "lower_for_statement_init" -> lower_for_statement_init(node)
      [] rule_ = "lower_for_statement" -> lower_for_statement(node)
      [] rule_ = "lower_for_statement_left" -> lower_for_statement_left(node)
      [] rule_ = "lower_for_in_statement" -> lower_for_in_statement(node)
      [] rule_ = "lower_for_of_statement" -> lower_for_of_statement(node)
      [] rule_ = "lower_if_statement" -> lower_if_statement(node)
      [] rule_ = "lower_labeled_statement" -> lower_labeled_statement(node)
      [] rule_ = "lower_return_statement" -> lower_return_statement(node)
      [] rule_ = "lower_switch_case" -> lower_switch_case(node)
      [] rule_ = "lower_switch_statement" -> lower_switch_statement(node)
      [] rule_ = "lower_throw_statement" -> lower_throw_statement(node)
      [] rule_ = "lower_catch_clause" -> lower_catch_clause(node)
      [] rule_ = "lower_try_statement" -> lower_try_statement(node)
      [] rule_ = "lower_while_statement" -> lower_while_statement(node)
      [] rule_ = "lower_with_statement" -> lower_with_statement(node)
      [] rule_ = "lower_statement" -> lower_statement(node)
      [] rule_ = "lower_meta_property" -> lower_meta_property(node)
      [] rule_ = "lower_spread_element" -> lower_spread_element(node)
      [] rule_ = "lower_array_expression_element" -> lower_array_expression_element(node)
      [] rule_ = "lower_array_expression" -> lower_array_expression(node)
      [] rule_ = "lower_argument" -> lower_argument(node)
      [] rule_ = "lower_assignment_expression" -> lower_assignment_expression(node)
      [] rule_ = "lower_arrow_expression" -> lower_arrow_expression(node)
      [] rule_ = "lower_await_expression" -> lower_await_expression(node)
      [] rule_ = "lower_binary_expression" -> lower_binary_expression(node)
      [] rule_ = "lower_call_expression" -> lower_call_expression(node)
      [] rule_ = "lower_member_expression" -> lower_member_expression(node)
      [] rule_ = "lower_chain_expression" -> lower_chain_expression(node)
      [] rule_ = "lower_class_expression" -> lower_class_expression(node)
      [] rule_ = "lower_conditional_expression" -> lower_conditional_expression(node)
      [] rule_ = "lower_function_expression" -> lower_function_expression(node)
      [] rule_ = "lower_import_expression" -> lower_import_expression(node)
      [] rule_ = "lower_logical_expression" -> lower_logical_expression(node)
      [] rule_ = "lower_computed_member_expression" -> lower_computed_member_expression(node)
      [] rule_ = "lower_static_member_expression" -> lower_static_member_expression(node)
      [] rule_ = "lower_private_field_expression" -> lower_private_field_expression(node)
      [] rule_ = "lower_member_expr" -> lower_member_expr(node)
      [] rule_ = "lower_new_expression" -> lower_new_expression(node)
      [] rule_ = "lower_property_key" -> lower_property_key(node)
      [] rule_ = "lower_property_value" -> lower_property_value(node)
      [] rule_ = "lower_property" -> lower_property(node)
      [] rule_ = "lower_object_property" -> lower_object_property(node)
      [] rule_ = "lower_object_expression" -> lower_object_expression(node)
      [] rule_ = "lower_private_in_expression" -> lower_private_in_expression(node)
      [] rule_ = "lower_sequence_expression" -> lower_sequence_expression(node)
      [] rule_ = "lower_template_literal" -> lower_template_literal(node)
      [] rule_ = "lower_tagged_template_expression" -> lower_tagged_template_expression(node)
      [] rule_ = "lower_this_expression" -> lower_this_expression(node)
      [] rule_ = "lower_unary_expression" -> lower_unary_expression(node)
      [] rule_ = "lower_update_expression" -> lower_update_expression(node)
      [] rule_ = "lower_yield_expression" -> lower_yield_expression(node)
      [] rule_ = "lower_super" -> lower_super(node)
      [] rule_ = "lower_assignment_target_expression" -> lower_assignment_target_expression(node)
      [] rule_ = "lower_simple_assignment_target" -> lower_simple_assignment_target(node)
      [] rule_ = "lower_assignment_target_with_default" -> lower_assignment_target_with_default(node)
      [] rule_ = "lower_assignment_target_maybe_default" -> lower_assignment_target_maybe_default(node)
      [] rule_ = "lower_array_assignment_target" -> lower_array_assignment_target(node)
      [] rule_ = "lower_assignment_target_property_identifier" -> lower_assignment_target_property_identifier(node)
      [] rule_ = "lower_assignment_target_property_property" -> lower_assignment_target_property_property(node)
      [] rule_ = "lower_assignment_target_property" -> lower_assignment_target_property(node)
      [] rule_ = "lower_object_assignment_target" -> lower_object_assignment_target(node)
      [] rule_ = "lower_assignment_target_pattern" -> lower_assignment_target_pattern(node)
      [] rule_ = "lower_assignment_target" -> lower_assignment_target(node)
      [] rule_ = "lower_rest_element" -> lower_rest_element(node)
      [] rule_ = "lower_object_pattern_property" -> lower_object_pattern_property(node)
      [] rule_ = "lower_object_pattern" -> lower_object_pattern(node)
      [] rule_ = "lower_array_pattern" -> lower_array_pattern(node)
      [] rule_ = "lower_assignment_pattern" -> lower_assignment_pattern(node)
      [] rule_ = "lower_binding_pattern" -> lower_binding_pattern(node)
      [] rule_ = "lower_expression" -> lower_expression(node)
      [] rule_ = "lower_ts_enum_declaration" -> lower_ts_enum_declaration(node)
      [] rule_ = "lower_ts_import_equals_declaration" -> lower_ts_import_equals_declaration(node)
      [] rule_ = "lower_decorator" -> lower_decorator(node)
      [] rule_ = "lower_variable_declarator" -> lower_variable_declarator(node)
      [] rule_ = "lower_variable_declaration" -> lower_variable_declaration(node)
      [] rule_ = "lower_function_body" -> lower_function_body(node)
      [] rule_ = "lower_formal_parameter" -> lower_formal_parameter(node)
      [] rule_ = "lower_formal_parameters" -> lower_formal_parameters(node)
      [] rule_ = "lower_function" -> lower_function(node)
      [] rule_ = "lower_static_block" -> lower_static_block(node)
      [] rule_ = "lower_method_definition" -> lower_method_definition(node)
      [] rule_ = "lower_property_definition" -> lower_property_definition(node)
      [] rule_ = "lower_accessor_property" -> lower_accessor_property(node)
      [] rule_ = "lower_class_element" -> lower_class_element(node)
      [] rule_ = "lower_class_body" -> lower_class_body(node)
      [] rule_ = "lower_class" -> lower_class(node)
      [] rule_ = "lower_declaration" -> lower_declaration(node)
      [] rule_ = "lower_module_export_name" -> lower_module_export_name(node)
      [] rule_ = "lower_import_attribute" -> lower_import_attribute(node)
      [] rule_ = "lower_import_specifier" -> lower_import_specifier(node)
      [] rule_ = "lower_import_default_specifier" -> lower_import_default_specifier(node)
      [] rule_ = "lower_import_name_specifier" -> lower_import_name_specifier(node)
      [] rule_ = "lower_import_declaration_specifier" -> lower_import_declaration_specifier(node)
      [] rule_ = "lower_import_declaration" -> lower_import_declaration(node)
      [] rule_ = "lower_export_all_declaration" -> lower_export_all_declaration(node)
      [] rule_ = "lower_export_default_declaration" -> lower_export_default_declaration(node)
      [] rule_ = "lower_export_specifier" -> lower_export_specifier(node)
      [] rule_ = "lower_export_named_declaration" -> lower_export_named_declaration(node)
      [] rule_ = "lower_module_declaration" -> lower_module_declaration(node)

---------------------------------------------------------------------------
(* The calls each rule makes, in the order the code makes them *)

\* One call self.rule(node).
Visit(rule_, node) == [rule |-> rule_, node |-> node]

\* A variant of the loop that hands every item to the rule twice.
Each_twice(cb, items) ==
    [i \in 1..(2 * Len(items)) |-> Visit(cb, items[(i + 1) \div 2])]

\* The calls of lower_vec(items, cb), and of Option::map and and_then with
\* cb: one for each item, first to last.
Each(cb, items) == [i \in 1..Len(items) |-> Visit(cb, items[i])]

\* The calls the body of a rule makes when it is handed node, first to last
\* (match arms and let statements in the order they are written).
calls(rule_, node) ==
    CASE rule_ = "lower_identifier_reference" -> <<>>
      [] rule_ = "lower_private_identifier" -> <<>>
      [] rule_ = "lower_label_identifier" -> <<>>
      [] rule_ = "lower_identifier_name" -> <<>>
      [] rule_ = "lower_binding_identifier" -> <<>>
      [] rule_ = "lower_number_literal" -> <<>>
      [] rule_ = "lower_boolean_literal" -> <<>>
      [] rule_ = "lower_null_literal" -> <<>>
      [] rule_ = "lower_bigint_literal" -> <<>>
      [] rule_ = "lower_string_literal" -> <<>>
      [] rule_ = "lower_reg_expr_literal" -> <<>>
      [] rule_ = "lower_template_element_value" -> <<>>
      [] rule_ = "lower_template_element" ->
            <<Visit("lower_template_element_value", node.value)>>
      [] rule_ = "lower_directive" ->
            <<Visit("lower_string_literal", node.expression)>>
      [] rule_ = "lower_statements" -> Each("lower_statement", node)
      [] rule_ = "lower_program" ->
            Each("lower_directive", node.directives)
            \o <<Visit("lower_statements", node.body)>>
      [] rule_ = "lower_statement_or_empty" ->
            <<Visit("lower_statement", node)>>
      [] rule_ = "lower_block" -> <<Visit("lower_statements", node.body)>>
      [] rule_ = "lower_block_statement" ->
            <<Visit("lower_statements", node.body)>>
      [] rule_ = "lower_break_statement" ->
            Each("lower_label_identifier", node.label)
      [] rule_ = "lower_continue_statement" ->
            Each("lower_label_identifier", node.label)
      [] rule_ = "lower_debugger_statement" -> <<>>
      [] rule_ = "lower_do_while_statement" ->
            <<Visit("lower_statement_or_empty", node.body), Visit("lower_expression", node.test)>>
      [] rule_ = "lower_empty_statement" -> <<>>
      [] rule_ = "lower_expression_statement" ->
            <<Visit("lower_expression", node.expression)>>
      [] rule_ = "lower_for_statement_init" ->
            (CASE node.type = "VariableDeclaration" -> <<Visit("lower_variable_declaration", node.decl)>>
               [] node.type = "Expression" -> <<Visit("lower_expression", node.expr)>>)
      [] rule_ = "lower_for_statement" ->
            Each("lower_for_statement_init", node.init)
            \o Each("lower_expression", node.test)
            \o Each("lower_expression", node.update)
            \o <<Visit("lower_statement_or_empty", node.body)>>
      [] rule_ = "lower_for_statement_left" ->
            (CASE node.type = "VariableDeclaration" -> <<Visit("lower_variable_declaration", node.decl)>>
               [] node.type = "AssignmentTarget" -> <<Visit("lower_assignment_target", node.target)>>)
      [] rule_ = "lower_for_in_statement" ->
            <<Visit("lower_for_statement_left", node.left), Visit("lower_expression", node.right), Visit("lower_statement_or_empty", node.body)>>
      [] rule_ = "lower_for_of_statement" ->
            <<Visit("lower_for_statement_left", node.left), Visit("lower_expression", node.right), Visit("lower_statement_or_empty", node.body)>>
      [] rule_ = "lower_if_statement" ->
            <<Visit("lower_expression", node.test), Visit("lower_statement_or_empty", node.consequent)>> \o Each("lower_statement", node.alternate)
      [] rule_ = "lower_labeled_statement" ->
            <<Visit("lower_label_identifier", node.label), Visit("lower_statement_or_empty", node.body)>>
      [] rule_ = "lower_return_statement" ->
            Each("lower_expression", node.argument)
      [] rule_ = "lower_switch_case" ->
            Each("lower_expression", node.test)
            \o <<Visit("lower_statements", node.consequent)>>
      [] rule_ = "lower_switch_statement" ->
            <<Visit("lower_expression", node.discriminant)>>
            \o Each("lower_switch_case", node.cases)
      [] rule_ = "lower_throw_statement" ->
            <<Visit("lower_expression", node.argument)>>
      [] rule_ = "lower_catch_clause" ->
            <<Visit("lower_block", node.body)>>
            \o Each("lower_binding_pattern", node.param)
      [] rule_ = "lower_try_statement" ->
            <<Visit("lower_block", node.block)>>
            \o Each("lower_catch_clause", node.handler)
            \o Each("lower_block", node.finalizer)
      [] rule_ = "lower_while_statement" ->
            <<Visit("lower_expression", node.test), Visit("lower_statement_or_empty", node.body)>>
      [] rule_ = "lower_with_statement" ->
            <<Visit("lower_expression", node.object), Visit("lower_statement_or_empty", node.body)>>
      [] rule_ = "lower_statement" ->
            (CASE node.type = "BlockStatement" -> <<Visit("lower_block_statement", node)>>
               [] node.type = "BreakStatement" -> <<Visit("lower_break_statement", node)>>
               [] node.type = "ContinueStatement" -> <<Visit("lower_continue_statement", node)>>
               [] node.type = "DebuggerStatement" -> <<Visit("lower_debugger_statement", node)>>
               [] node.type = "DoWhileStatement" -> <<Visit("lower_do_while_statement", node)>>
               [] node.type = "EmptyStatement" -> <<Visit("lower_empty_statement", node)>>
               [] node.type = "ExpressionStatement" -> <<Visit("lower_expression_statement", node)>>
               [] node.type = "ForInStatement" -> <<Visit("lower_for_in_statement", node)>>
               [] node.type = "ForOfStatement" -> <<Visit("lower_for_of_statement", node)>>
               [] node.type = "ForStatement" -> <<Visit("lower_for_statement", node)>>
               [] node.type = "IfStatement" -> <<Visit("lower_if_statement", node)>>
               [] node.type = "LabeledStatement" -> <<Visit("lower_labeled_statement", node)>>
               [] node.type = "ReturnStatement" -> <<Visit("lower_return_statement", node)>>
               [] node.type = "SwitchStatement" -> <<Visit("lower_switch_statement", node)>>
               [] node.type = "ThrowStatement" -> <<Visit("lower_throw_statement", node)>>
               [] node.type = "TryStatement" -> <<Visit("lower_try_statement", node)>>
               [] node.type = "WhileStatement" -> <<Visit("lower_while_statement", node)>>
               [] node.type = "WithStatement" -> <<Visit("lower_with_statement", node)>>
               [] node.type = "ModuleDeclaration" -> <<Visit("lower_module_declaration", node.decl)>>
               [] node.type = "Declaration" -> <<Visit("lower_declaration", node.decl)>>)
      [] rule_ = "lower_meta_property" ->
            <<Visit("lower_identifier_name", node.meta), Visit("lower_identifier_name", node.property)>>
      [] rule_ = "lower_spread_element" ->
            <<Visit("lower_expression", node.argument)>>
      [] rule_ = "lower_array_expression_element" ->
            (CASE node.type = "SpreadElement" -> <<Visit("lower_spread_element", node)>>
               [] node.type = "Expression" -> <<Visit("lower_expression", node.expr)>>
               [] node.type = "Elision" -> <<>>)
      [] rule_ = "lower_array_expression" ->
            Each("lower_array_expression_element", node.elements)
      [] rule_ = "lower_argument" ->
            (CASE node.type = "SpreadElement" -> <<Visit("lower_spread_element", node)>>
               [] node.type = "Expression" -> <<Visit("lower_expression", node.expr)>>)
      [] rule_ = "lower_assignment_expression" ->
            <<Visit("lower_assignment_target", node.left), Visit("lower_expression", node.right)>>
      [] rule_ = "lower_arrow_expression" ->
            <<Visit("lower_formal_parameters", node.params), Visit("lower_function_body", node.body)>>
      [] rule_ = "lower_await_expression" ->
            <<Visit("lower_expression", node.argument)>>
      [] rule_ = "lower_binary_expression" ->
            <<Visit("lower_expression", node.left), Visit("lower_expression", node.right)>>
      [] rule_ = "lower_call_expression" ->
            <<Visit("lower_expression", node.callee)>>
            \o Each("lower_argument", node.arguments)
      [] rule_ = "lower_member_expression" ->
            <<Visit("lower_member_expr", node)>>
      [] rule_ = "lower_chain_expression" ->
            (CASE node.expression.type = "CallExpression" ->
                     <<Visit("lower_call_expression", node.expression)>>
               [] node.expression.type = "MemberExpression" ->
                     <<Visit("lower_member_expression", node.expression.expr)>>)
      [] rule_ = "lower_class_expression" -> <<Visit("lower_class", node)>>
      [] rule_ = "lower_conditional_expression" ->
            <<Visit("lower_expression", node.test), Visit("lower_expression", node.consequent), Visit("lower_expression", node.alternate)>>
      [] rule_ = "lower_function_expression" ->
            <<Visit("lower_function", node)>>
      [] rule_ = "lower_import_expression" ->
            <<Visit("lower_expression", node.source)>>
            \o Each("lower_expression", node.arguments)
      [] rule_ = "lower_logical_expression" ->
            <<Visit("lower_expression", node.left), Visit("lower_expression", node.right)>>
      [] rule_ = "lower_computed_member_expression" ->
            <<Visit("lower_expression", node.object), Visit("lower_expression", node.expression)>>
      [] rule_ = "lower_static_member_expression" ->
            <<Visit("lower_expression", node.object), Visit("lower_identifier_name", node.property)>>
      [] rule_ = "lower_private_field_expression" ->
            <<Visit("lower_expression", node.object), Visit("lower_private_identifier", node.field)>>
      [] rule_ = "lower_member_expr" ->
            (CASE node.type = "ComputedMemberExpression" -> <<Visit("lower_computed_member_expression", node)>>
               [] node.type = "StaticMemberExpression" -> <<Visit("lower_static_member_expression", node)>>
               [] node.type = "PrivateFieldExpression" -> <<Visit("lower_private_field_expression", node)>>)
      [] rule_ = "lower_new_expression" ->
            <<Visit("lower_expression", node.callee)>>
            \o Each("lower_argument", node.arguments)
      [] rule_ = "lower_property_key" ->
            (CASE node.type = "Identifier" -> <<Visit("lower_identifier_name", node.ident)>>
               [] node.type = "PrivateIdentifier" -> <<Visit("lower_private_identifier", node.ident)>>
               [] node.type = "Expression" -> <<Visit("lower_expression", node.expr)>>)
      [] rule_ = "lower_property_value" ->
            (CASE node.type = "Pattern" -> <<Visit("lower_binding_pattern", node.pat)>>
               [] node.type = "Expression" -> <<Visit("lower_expression", node.expr)>>)
      [] rule_ = "lower_property" ->
            <<Visit("lower_property_key", node.key), Visit("lower_property_value", node.value)>>
      [] rule_ = "lower_object_property" ->
            (CASE node.type = "Property" -> <<Visit("lower_property", node)>>
               [] node.type = "SpreadProperty" -> <<Visit("lower_spread_element", node.spread)>>)
      [] rule_ = "lower_object_expression" ->
            Each("lower_object_property", node.properties)
      [] rule_ = "lower_private_in_expression" ->
            <<Visit("lower_private_identifier", node.left), Visit("lower_expression", node.right)>>
      [] rule_ = "lower_sequence_expression" ->
            Each("lower_expression", node.expressions)
      [] rule_ = "lower_template_literal" ->
            Each("lower_template_element", node.quasis)
            \o Each("lower_expression", node.expressions)
      [] rule_ = "lower_tagged_template_expression" ->
            <<Visit("lower_expression", node.tag), Visit("lower_template_literal", node.quasi)>>
      [] rule_ = "lower_this_expression" -> <<>>
      [] rule_ = "lower_unary_expression" ->
            <<Visit("lower_expression", node.argument)>>
      [] rule_ = "lower_update_expression" ->
            <<Visit("lower_simple_assignment_target", node.argument)>>
      [] rule_ = "lower_yield_expression" ->
            Each("lower_expression", node.argument)
      [] rule_ = "lower_super" -> <<>>
      [] rule_ = "lower_assignment_target_expression" ->
            (CASE node.type = "Identifier" -> <<Visit("lower_identifier_reference", node)>>
               [] node.type = "MemberExpression" -> <<Visit("lower_member_expr", node.expr)>>
               [] OTHER -> <<>>)
      [] rule_ = "lower_simple_assignment_target" ->
            (CASE node.type = "AssignmentTargetIdentifier" -> <<Visit("lower_identifier_reference", node)>>
               [] node.type = "MemberAssignmentTarget" -> <<Visit("lower_member_expr", node.expr)>>
               [] node.type = "TSAsExpression" -> <<Visit("lower_assignment_target_expression", node.expression)>>
               [] node.type = "TSSatisfiesExpression" -> <<Visit("lower_assignment_target_expression", node.expression)>>
               [] node.type = "TSNonNullExpression" -> <<Visit("lower_assignment_target_expression", node.expression)>>
               [] node.type = "TSTypeAssertion" -> <<Visit("lower_assignment_target_expression", node.expression)>>)
      [] rule_ = "lower_assignment_target_with_default" ->
            <<Visit("lower_assignment_target", node.binding), Visit("lower_expression", node.init)>>
      [] rule_ = "lower_assignment_target_maybe_default" ->
            (CASE node.type = "AssignmentTarget" -> <<Visit("lower_assignment_target", node.target)>>
               [] node.type = "AssignmentTargetWithDefault" -> <<Visit("lower_assignment_target_with_default", node)>>)
      [] rule_ = "lower_array_assignment_target" ->
            Each("lower_assignment_target_maybe_default", Flatten(node.elements)) \o Each("lower_assignment_target", node.rest)
      [] rule_ = "lower_assignment_target_property_identifier" ->
            <<Visit("lower_identifier_reference", node.binding)>>
            \o Each("lower_expression", node.init)
      [] rule_ = "lower_assignment_target_property_property" ->
            <<Visit("lower_property_key", node.name), Visit("lower_assignment_target_maybe_default", node.binding)>>
      [] rule_ = "lower_assignment_target_property" ->
            (CASE node.type = "AssignmentTargetPropertyIdentifier" -> <<Visit("lower_assignment_target_property_identifier", node)>>
               [] node.type = "AssignmentTargetPropertyProperty" -> <<Visit("lower_assignment_target_property_property", node)>>)
      [] rule_ = "lower_object_assignment_target" ->
            Each("lower_assignment_target_property", node.properties)
            \o Each("lower_assignment_target", node.rest)
      [] rule_ = "lower_assignment_target_pattern" ->
            (CASE node.type = "ArrayAssignmentTarget" -> <<Visit("lower_array_assignment_target", node)>>
               [] node.type = "ObjectAssignmentTarget" -> <<Visit("lower_object_assignment_target", node)>>)
      [] rule_ = "lower_assignment_target" ->
            (CASE node.type = "SimpleAssignmentTarget" -> <<Visit("lower_simple_assignment_target", node.target)>>
               [] node.type = "AssignmentTargetPattern" -> <<Visit("lower_assignment_target_pattern", node.target)>>)
      [] rule_ = "lower_rest_element" ->
            <<Visit("lower_binding_pattern", node.argument)>>
      [] rule_ = "lower_object_pattern_property" ->
            (CASE node.type = "Property" -> <<Visit("lower_property", node)>>
               [] node.type = "RestElement" -> <<Visit("lower_rest_element", node)>>)
      [] rule_ = "lower_object_pattern" ->
            Each("lower_object_pattern_property", node.properties)
      [] rule_ = "lower_array_pattern" ->
            Each("lower_binding_pattern", Flatten(node.elements))
      [] rule_ = "lower_assignment_pattern" ->
            <<Visit("lower_binding_pattern", node.left), Visit("lower_expression", node.right)>>
      [] rule_ = "lower_binding_pattern" ->
            (CASE node.type = "BindingIdentifier" -> <<Visit("lower_binding_identifier", node)>>
               [] node.type = "ObjectPattern" -> <<Visit("lower_object_pattern", node)>>
               [] node.type = "ArrayPattern" -> <<Visit("lower_array_pattern", node)>>
               [] node.type = "RestElement" -> <<Visit("lower_rest_element", node)>>
               [] node.type = "AssignmentPattern" -> <<Visit("lower_assignment_pattern", node)>>)
      [] rule_ = "lower_expression" ->
            (CASE node.type = "BigintLiteral" -> <<Visit("lower_bigint_literal", node)>>
               [] node.type = "BooleanLiteral" -> <<Visit("lower_boolean_literal", node)>>
               [] node.type = "NullLiteral" -> <<Visit("lower_null_literal", node)>>
               [] node.type = "NumberLiteral" -> <<Visit("lower_number_literal", node)>>
               [] node.type = "RegExpLiteral" -> <<Visit("lower_reg_expr_literal", node)>>
               [] node.type = "StringLiteral" -> <<Visit("lower_string_literal", node)>>
               [] node.type = "TemplateLiteral" -> <<Visit("lower_template_literal", node)>>
               [] node.type = "Identifier" -> <<Visit("lower_identifier_reference", node)>>
               [] node.type = "MetaProperty" -> <<Visit("lower_meta_property", node)>>
               [] node.type = "ArrayExpression" -> <<Visit("lower_array_expression", node)>>
               [] node.type = "ArrowFunctionExpression" -> <<Visit("lower_arrow_expression", node)>>
               [] node.type = "AssignmentExpression" -> <<Visit("lower_assignment_expression", node)>>
               [] node.type = "AwaitExpression" -> <<Visit("lower_await_expression", node)>>
               [] node.type = "BinaryExpression" -> <<Visit("lower_binary_expression", node)>>
               [] node.type = "CallExpression" -> <<Visit("lower_call_expression", node)>>
               [] node.type = "ChainExpression" -> <<Visit("lower_chain_expression", node)>>
               [] node.type = "ClassExpression" -> <<Visit("lower_class_expression", node.class)>>
               [] node.type = "ConditionalExpression" -> <<Visit("lower_conditional_expression", node)>>
               [] node.type = "FunctionExpression" -> <<Visit("lower_function_expression", node.func)>>
               [] node.type = "ImportExpression" -> <<Visit("lower_import_expression", node)>>
               [] node.type = "LogicalExpression" -> <<Visit("lower_logical_expression", node)>>
               [] node.type = "MemberExpression" -> <<Visit("lower_member_expression", node.expr)>>
               [] node.type = "NewExpression" -> <<Visit("lower_new_expression", node)>>
               [] node.type = "ObjectExpression" -> <<Visit("lower_object_expression", node)>>
               [] node.type = "PrivateInExpression" -> <<Visit("lower_private_in_expression", node)>>
               [] node.type = "SequenceExpression" -> <<Visit("lower_sequence_expression", node)>>
               [] node.type = "TaggedTemplateExpression" -> <<Visit("lower_tagged_template_expression", node)>>
               [] node.type = "ThisExpression" -> <<Visit("lower_this_expression", node)>>
               [] node.type = "UnaryExpression" -> <<Visit("lower_unary_expression", node)>>
               [] node.type = "UpdateExpression" -> <<Visit("lower_update_expression", node)>>
               [] node.type = "YieldExpression" -> <<Visit("lower_yield_expression", node)>>
               [] node.type = "Super" -> <<Visit("lower_super", node)>>
               [] node.type = "JSXElement" -> <<>>
               [] node.type = "JSXFragment" -> <<>>
               [] node.type = "ParenthesizedExpression" -> <<Visit("lower_expression", node.expression)>>
               [] node.type = "TSAsExpression" -> <<Visit("lower_expression", node.expression)>>
               [] node.type = "TSSatisfiesExpression" -> <<Visit("lower_expression", node.expression)>>
               [] node.type = "TSNonNullExpression" -> <<Visit("lower_expression", node.expression)>>
               [] node.type = "TSTypeAssertion" -> <<Visit("lower_expression", node.expression)>>
               [] node.type = "TSInstantiationExpression" -> <<Visit("lower_expression", node.expression)>>)
      [] rule_ = "lower_ts_enum_declaration" -> <<>>
      [] rule_ = "lower_ts_import_equals_declaration" -> <<>>
      [] rule_ = "lower_decorator" ->
            <<Visit("lower_expression", node.expression)>>
      [] rule_ = "lower_variable_declarator" ->
            <<Visit("lower_binding_pattern", node.id)>>
            \o Each("lower_expression", node.init)
      [] rule_ = "lower_variable_declaration" ->
            Each("lower_variable_declarator", node.declarations)
      [] rule_ = "lower_function_body" ->
            Each("lower_directive", node.directives)
            \o <<Visit("lower_statements", node.statements)>>
      [] rule_ = "lower_formal_parameter" ->
            <<Visit("lower_binding_pattern", node.pattern)>>
            \o Each("lower_decorator", node.decorators)
      [] rule_ = "lower_formal_parameters" ->
            Each("lower_formal_parameter", node.items)
      [] rule_ = "lower_function" ->
            Each("lower_binding_identifier", node.id)
            \o <<Visit("lower_formal_parameters", node.params)>>
            \o Each("lower_function_body", node.body)
      [] rule_ = "lower_static_block" ->
            <<Visit("lower_statements", node.body)>>
      [] rule_ = "lower_method_definition" ->
            <<Visit("lower_property_key", node.key), Visit("lower_function", node.value)>>
            \o Each("lower_decorator", node.decorators)
      [] rule_ = "lower_property_definition" ->
            <<Visit("lower_property_key", node.key)>>
            \o Each("lower_expression", node.value)
            \o Each("lower_decorator", node.decorators)
      [] rule_ = "lower_accessor_property" ->
            <<Visit("lower_property_key", node.key)>>
            \o Each("lower_expression", node.value)
      [] rule_ = "lower_class_element" ->
            (CASE node.type = "StaticBlock" -> <<Visit("lower_static_block", node)>>
               [] node.type = "MethodDefinition" -> <<Visit("lower_method_definition", node)>>
               [] node.type = "PropertyDefinition" -> <<Visit("lower_property_definition", node)>>
               [] node.type = "AccessorProperty" -> <<Visit("lower_accessor_property", node)>>
               [] node.type \in {"TSAbstractMethodDefinition", "TSAbstractPropertyDefinition", "TSIndexSignature"} -> <<>>)
      [] rule_ = "lower_class_body" -> Each("lower_class_element", node.body)
      [] rule_ = "lower_class" ->
            Each("lower_binding_identifier", node.id)
            \o Each("lower_expression", node.super_class)
            \o <<Visit("lower_class_body", node.body)>>
            \o Each("lower_decorator", node.decorators)
      [] rule_ = "lower_declaration" ->
            (CASE node.type = "VariableDeclaration" -> <<Visit("lower_variable_declaration", node)>>
               [] node.type = "FunctionDeclaration" -> <<Visit("lower_function", node.func)>>
               [] node.type = "ClassDeclaration" -> <<Visit("lower_class", node.class)>>
               [] node.type = "TSEnumDeclaration" -> <<Visit("lower_ts_enum_declaration", node)>>
               [] node.type = "TSImportEqualsDeclaration" -> <<Visit("lower_ts_import_equals_declaration", node)>>
               [] OTHER -> <<>>)
      [] rule_ = "lower_module_export_name" ->
            (CASE node.type = "Identifier" -> <<Visit("lower_identifier_name", node.ident)>>
               [] node.type = "StringLiteral" -> <<Visit("lower_string_literal", node.lit)>>)
      [] rule_ = "lower_import_attribute" ->
            (CASE node.key.type = "Identifier" ->
                    <<Visit("lower_identifier_name", node.key.ident)>>
               [] node.key.type = "StringLiteral" ->
                    <<Visit("lower_string_literal", node.key.lit)>>)
            \o <<Visit("lower_string_literal", node.value)>>
      [] rule_ = "lower_import_specifier" ->
            <<Visit("lower_module_export_name", node.imported), Visit("lower_binding_identifier", node.local)>>
      [] rule_ = "lower_import_default_specifier" ->
            <<Visit("lower_binding_identifier", node.local)>>
      [] rule_ = "lower_import_name_specifier" ->
            <<Visit("lower_binding_identifier", node.local)>>
      [] rule_ = "lower_import_declaration_specifier" ->
            (CASE node.type = "ImportSpecifier" -> <<Visit("lower_import_specifier", node)>>
               [] node.type = "ImportDefaultSpecifier" -> <<Visit("lower_import_default_specifier", node)>>
               [] node.type = "ImportNamespaceSpecifier" -> <<Visit("lower_import_name_specifier", node)>>)
      [] rule_ = "lower_import_declaration" ->
            Each("lower_import_declaration_specifier", node.specifiers) \o <<Visit("lower_string_literal", node.source)>> \o Each("lower_import_attribute", Flatten(node.assertions))
      [] rule_ = "lower_export_all_declaration" ->
            Each("lower_module_export_name", node.exported) \o <<Visit("lower_string_literal", node.source)>> \o Each("lower_import_attribute", Flatten(node.assertions))
      [] rule_ = "lower_export_default_declaration" ->
            (CASE node.declaration.type = "Expression" ->
                     <<Visit("lower_expression", node.declaration.expr),
                       Visit("lower_module_export_name", node.exported)>>
               [] node.declaration.type = "FunctionDeclaration" ->
                     <<Visit("lower_function", node.declaration.func),
                       Visit("lower_module_export_name", node.exported)>>
               [] node.declaration.type = "ClassDeclaration" ->
                     <<Visit("lower_class", node.declaration.class),
                       Visit("lower_module_export_name", node.exported)>>
               [] node.declaration.type = "TSEnumDeclaration" ->
                     <<Visit("lower_ts_enum_declaration", node.declaration)>>
               [] node.declaration.type = "TSInterfaceDeclaration" -> <<>>)
      [] rule_ = "lower_export_specifier" ->
            <<Visit("lower_module_export_name", node.local), Visit("lower_module_export_name", node.exported)>>
      [] rule_ = "lower_export_named_declaration" ->
            Each("lower_declaration", node.declaration) \o Each("lower_export_specifier", node.specifiers) \o Each("lower_string_literal", node.source)
      [] rule_ = "lower_module_declaration" ->
            (CASE node.type = "ImportDeclaration" -> <<Visit("lower_import_declaration", node)>>
               [] node.type = "ExportAllDeclaration" -> <<Visit("lower_export_all_declaration", node)>>
               [] node.type = "ExportDefaultDeclaration" -> <<Visit("lower_export_default_declaration", node)>>
               [] node.type = "ExportNamedDeclaration" -> <<Visit("lower_export_named_declaration", node)>>
               [] node.type \in {"TSExportAssignment", "TSNamespaceExportDeclaration"} -> <<>>)

\* The calls made below the calls of todo, each followed at once by the calls
\* its rule makes: the order in which the rules are entered.
RECURSIVE Trace(_)
Trace(todo) ==
    IF todo = <<>> THEN <<>>
    ELSE <<Head(todo)>>
         \o Trace(calls(Head(todo).rule, Head(todo).node) \o Tail(todo))

---------------------------------------------------------------------------
(* The inputs: bounded sets of AST nodes, as the parser may hand them over *)

\* The deepest stack of passthrough wrappers around an expression.
MaxWrap == 2
\* The longest statement list and the longest array element list.
MaxLen == 3
\* The deepest nesting of statements in single-statement positions.
MaxNest == 1
\* The number of times a program is built, each time on a fresh AstLower.
MaxBuilds == 2

Sp(a, b) == [start |-> a, end |-> b]

Grow(span, l, r) == [start |-> span.start - l, end |-> span.end + r]

RECURSIVE SeqsUpTo(_, _)
SeqsUpTo(S, n) ==
    IF n = 0 THEN {<<>>}
    ELSE LET shorter == SeqsUpTo(S, n - 1)
         IN  shorter \cup {Append(q, x) : q \in shorter, x \in S}

Opt(S) == {None} \cup {Some(x) : x \in S}

Ident(name, span) == [type |-> "Identifier", span |-> span, name |-> name]

IdentName(name, span) == [type |-> "IdentifierName", span |-> span, name |-> name]

Num(value, span) ==
    [type |-> "NumberLiteral", span |-> span, value |-> value, raw |-> "n",
     base |-> "Decimal"]

WrapperKinds ==
    {"ParenthesizedExpression", "TSAsExpression", "TSSatisfiesExpression",
     "TSNonNullExpression", "TSTypeAssertion", "TSInstantiationExpression"}

TargetWrapperKinds ==
    {"TSAsExpression", "TSSatisfiesExpression", "TSNonNullExpression",
     "TSTypeAssertion"}

\* (e), <T>e, e as T, e satisfies T, e!, e<T>: the wrapper's span is wider
\* than the span of the expression it wraps.
Wrapper(kind, e) ==
    [type |-> kind,
     span |-> CASE kind = "ParenthesizedExpression" -> Grow(GetSpan(e), 1, 1)
                [] kind = "TSTypeAssertion" -> Grow(GetSpan(e), 3, 0)
                [] OTHER -> Grow(GetSpan(e), 0, 3),
     expression |-> e]

StaticMember(object) ==
    [type |-> "StaticMemberExpression", span |-> Grow(GetSpan(object), 0, 2),
     object |-> object,
     property |-> IdentName("p", Sp(GetSpan(object).end + 1, GetSpan(object).end + 2)),
     optional |-> FALSE]

ComputedMember(object, expression) ==
    [type |-> "ComputedMemberExpression",
     span |-> Sp(GetSpan(object).start, GetSpan(expression).end + 1),
     object |-> object, expression |-> expression, optional |-> FALSE]

PrivateField(object) ==
    [type |-> "PrivateFieldExpression", span |-> Grow(GetSpan(object), 0, 3),
     object |-> object,
     field |-> [type |-> "PrivateIdentifier",
                span |-> Sp(GetSpan(object).end + 1, GetSpan(object).end + 3),
                name |-> "f"],
     optional |-> FALSE]

MemberExpr(member) == [type |-> "MemberExpression", expr |-> member]

X == Ident("x", Sp(10, 11))

One == Num(1, Sp(14, 15))

Members == {StaticMember(X), ComputedMember(X, One), PrivateField(X)}

\* The simple assignment targets: the two plain ones, and the TS wrappers
\* around expressions the parser admits and around ones it should not.
TargetInners ==
    {X, One, Wrapper("ParenthesizedExpression", X), Wrapper("TSNonNullExpression", X),
     [type |-> "ThisExpression", span |-> Sp(10, 14)]}
    \cup {MemberExpr(m) : m \in Members}

SimpleTargets ==
    {[type |-> "AssignmentTargetIdentifier", span |-> X.span, name |-> X.name]}
    \cup {[type |-> "MemberAssignmentTarget", expr |-> m] : m \in Members}
    \cup {[type |-> kind, span |-> Grow(GetSpan(e), 0, 3), expression |-> e] :
            kind \in TargetWrapperKinds, e \in TargetInners}

SimpleTarget(t) == [type |-> "SimpleAssignmentTarget", target |-> t]

AssignTargetX == SimpleTarget([type |-> "AssignmentTargetIdentifier",
                               span |-> X.span, name |-> X.name])

\* x as T, with x an identifier: a wrapper the parser admits.
GoodWrappedTarget ==
    [type |-> "TSAsExpression", span |-> Grow(X.span, 0, 3), expression |-> X]

\* 1 as T: a wrapper around neither an identifier nor a member expression.
BadWrappedTarget ==
    [type |-> "TSAsExpression", span |-> Grow(One.span, 0, 3), expression |-> One]

Update(operator, prefix, target) ==
    [type |-> "UpdateExpression", span |-> Grow(GetSpan(target), 2, 2),
     operator |-> operator, prefix |-> prefix, argument |-> target]

BadUpdate == Update("Increment", FALSE, BadWrappedTarget)

JSX(kind, children) == [type |-> kind, span |-> Sp(20, 30), children |-> children]

JSXs == {JSX(kind, children) : kind \in {"JSXElement", "JSXFragment"},
                               children \in {<<>>, <<X>>, <<BadUpdate>>}}

ExprLeaves == {X, One, [type |-> "ThisExpression", span |-> Sp(10, 14)]} \cup JSXs

AssignmentOperators ==
    {"Assign", "Addition", "Subtraction", "Multiplication", "Division",
     "Remainder", "ShiftLeft", "ShiftRight", "ShiftRightZeroFill", "BitwiseOR",
     "BitwiseXOR", "BitwiseAnd", "LogicalAnd", "LogicalOr", "LogicalNullish",
     "Exponential"}

BinaryOperators ==
    {"Equality", "Inequality", "StrictEquality", "StrictInequality", "LessThan",
     "LessEqualThan", "GreaterThan", "GreaterEqualThan", "ShiftLeft",
     "ShiftRight", "ShiftRightZeroFill", "Addition", "Subtraction",
     "Multiplication", "Division", "Remainder", "BitwiseOR", "BitwiseXOR",
     "BitwiseAnd", "In", "Instanceof", "Exponential"}

LogicalOperators == {"Or", "And", "Coalesce"}

UnaryOperators ==
    {"UnaryNegation", "UnaryPlus", "LogicalNot", "BitwiseNot", "Typeof", "Void",
     "Delete"}

UpdateOperators == {"Increment", "Decrement"}

OperatorExprs ==
    {[type |-> "BinaryExpression", span |-> Sp(10, 15), left |-> X,
      operator |-> op, right |-> One] : op \in BinaryOperators}
    \cup {[type |-> "LogicalExpression", span |-> Sp(10, 15), left |-> X,
           operator |-> op, right |-> One] : op \in LogicalOperators}
    \cup {[type |-> "UnaryExpression", span |-> Sp(8, 11), operator |-> op,
           prefix |-> TRUE, argument |-> X] : op \in UnaryOperators}
    \cup {Update(op, prefix, t) : op \in UpdateOperators, prefix \in BOOLEAN,
                                  t \in SimpleTargets}
    \cup {[type |-> "AssignmentExpression", span |-> Sp(10, 18), operator |-> op,
           left |-> SimpleTarget(t), right |-> One] :
            op \in AssignmentOperators,
            t \in {AssignTargetX.target, GoodWrappedTarget, BadWrappedTarget}}

\* [a, , ...b]: the slots of an array expression.
ArrayElements ==
    {[type |-> "Elision", span |-> Sp(12, 12)],
     [type |-> "Expression", expr |-> X],
     [type |-> "SpreadElement", span |-> Sp(11, 15), argument |-> One]}

ArrayExprs ==
    {[type |-> "ArrayExpression", span |-> Sp(9, 19), elements |-> elements,
      trailing_comma |-> None] : elements \in SeqsUpTo(ArrayElements, MaxLen)}

BindingX == [type |-> "BindingIdentifier", span |-> Sp(10, 11), name |-> "x"]

\* [a, , b = 1]: the slots of an array binding pattern; None is a hole.
PatternSlots ==
    {None, Some(BindingX),
     Some([type |-> "AssignmentPattern", span |-> Sp(10, 15), left |-> BindingX,
           right |-> One])}

ArrayPatterns ==
    {[type |-> "ArrayPattern", span |-> Sp(9, 19), elements |-> elements] :
        elements \in SeqsUpTo(PatternSlots, MaxLen)}

BindingPatterns ==
    {BindingX,
     [type |-> "RestElement", span |-> Sp(7, 11), argument |-> BindingX],
     [type |-> "AssignmentPattern", span |-> Sp(10, 15), left |-> BindingX,
      right |-> BadUpdate],
     [type |-> "ObjectPattern", span |-> Sp(9, 19), properties |-> <<>>]}
    \cup ArrayPatterns

\* [a, , b = 1] = ...: the slots of an array assignment target.
TargetSlots ==
    {None,
     Some([type |-> "AssignmentTarget", target |-> AssignTargetX]),
     Some([type |-> "AssignmentTargetWithDefault", span |-> Sp(10, 15),
           binding |-> AssignTargetX, init |-> One])}

ArrayTargets ==
    {[type |-> "ArrayAssignmentTarget", span |-> Sp(9, 19),
      elements |-> elements, rest |-> rest, trailing_comma |-> None] :
        elements \in SeqsUpTo(TargetSlots, MaxLen),
        rest \in {None, Some(SimpleTarget(GoodWrappedTarget))}}

AssignmentTargets ==
    {SimpleTarget(t) : t \in SimpleTargets}
    \cup {[type |-> "AssignmentTargetPattern", target |-> t] : t \in ArrayTargets}
    \cup {[type |-> "AssignmentTargetPattern",
           target |-> [type |-> "ObjectAssignmentTarget", span |-> Sp(9, 19),
                       properties |-> <<>>, rest |-> rest]] :
            rest \in {None, Some(SimpleTarget(BadWrappedTarget))}}

Call(callee, arguments, optional) ==
    [type |-> "CallExpression", span |-> Grow(GetSpan(callee), 0, 4),
     callee |-> callee, arguments |-> arguments, optional |-> optional]

CompositeExprs ==
    {MemberExpr(m) : m \in Members}
    \cup {Call(X, arguments, FALSE) :
            arguments \in {<<>>, <<[type |-> "Expression", expr |-> One]>>,
                           <<[type |-> "Expression", expr |-> BadUpdate]>>}}
    \cup {[type |-> "ChainExpression", span |-> Sp(10, 16),
           expression |-> Call(X, <<>>, TRUE)],
          [type |-> "ChainExpression", span |-> Sp(10, 13),
           expression |-> MemberExpr([StaticMember(X) EXCEPT !.optional = TRUE])],
          [type |-> "ConditionalExpression", span |-> Sp(10, 21), test |-> X,
           consequent |-> One, alternate |-> X],
          [type |-> "SequenceExpression", span |-> Sp(10, 15),
           expressions |-> <<X, One>>],
          [type |-> "AssignmentExpression", span |-> Sp(9, 25),
           operator |-> "Assign",
           left |-> [type |-> "AssignmentTargetPattern",
                     target |-> [type |-> "ArrayAssignmentTarget",
                                 span |-> Sp(9, 19),
                                 elements |-> <<None, Some([type |-> "AssignmentTarget",
                                                            target |-> AssignTargetX])>>,
                                 rest |-> None, trailing_comma |-> None]],
           right |-> X]}

\* The expressions that wrappers are stacked on.
WrapBases ==
    {X, One, JSX("JSXElement", <<>>), BadUpdate,
     Update("Decrement", TRUE, GoodWrappedTarget), MemberExpr(StaticMember(X)),
     [type |-> "BinaryExpression", span |-> Sp(10, 15), left |-> X,
      operator |-> "Addition", right |-> One]}

RECURSIVE Wrapped(_)
Wrapped(depth) ==
    IF depth = 0 THEN WrapBases
    ELSE {Wrapper(kind, e) : kind \in WrapperKinds, e \in Wrapped(depth - 1)}

WrappedExprs == UNION {Wrapped(depth) : depth \in 1..MaxWrap}

\* A wrapper inside an operand: the passthrough is applied below the root too.
NestedWrapExprs ==
    {[type |-> "BinaryExpression", span |-> Grow(GetSpan(e), 0, 4), left |-> e,
      operator |-> "Addition", right |-> One] : e \in Wrapped(1)}

\* a?.(), a?.p, a?.[1], a?.#f and their non-optional links, each in a chain.
ChainElements ==
    {Call(X, arguments, optional) :
        arguments \in {<<>>, <<[type |-> "Expression", expr |-> BadUpdate]>>},
        optional \in BOOLEAN}
    \cup {MemberExpr([m EXCEPT !.optional = optional]) :
            m \in Members, optional \in BOOLEAN}

ChainExprs ==
    {[type |-> "ChainExpression", span |-> Grow(GetSpan(element), 0, 1),
      expression |-> element] : element \in ChainElements}

\* yield, yield x, class {} and class extends x {} as expressions.
OptionalExprs ==
    {[type |-> "YieldExpression", span |-> Sp(4, 11), delegate |-> FALSE,
      argument |-> argument] : argument \in Opt({X})}
    \cup {[type |-> "ClassExpression",
           class |-> [type |-> "ClassExpression", span |-> Sp(0, 100), id |-> id,
                      super_class |-> super_class,
                      body |-> [type |-> "ClassBody", span |-> Sp(5, 100),
                                body |-> <<>>],
                      decorators |-> <<>>]] :
            id \in Opt({BindingX}), super_class \in Opt({X})}

Exprs ==
    ExprLeaves \cup OperatorExprs \cup ArrayExprs \cup CompositeExprs
    \cup WrappedExprs \cup NestedWrapExprs \cup ChainExprs \cup OptionalExprs

---------------------------------------------------------------------------
(* The input statements *)

DeclarationStmt(decl) == [type |-> "Declaration", decl |-> decl]

ModuleStmt(decl) == [type |-> "ModuleDeclaration", decl |-> decl]

TSDecl(type, span) == [type |-> type, span |-> span, id |-> "E"]

ExportName ==
    [type |-> "Identifier", ident |-> IdentName("default", Sp(47, 54))]

ExportDefault(kind) ==
    ModuleStmt([type |-> "ExportDefaultDeclaration", span |-> Sp(40, 60),
                declaration |-> kind, exported |-> ExportName])

ExportNamed(declaration) ==
    ModuleStmt([type |-> "ExportNamedDeclaration", span |-> Sp(40, 60),
                declaration |-> declaration, specifiers |-> <<>>,
                source |-> None, export_kind |-> "Value"])

EnumStmt == DeclarationStmt(TSDecl("TSEnumDeclaration", Sp(40, 50)))

ImportEqualsStmt == DeclarationStmt(TSDecl("TSImportEqualsDeclaration", Sp(41, 51)))

\* The statements the pass erases: TS-only declarations and module forms.
ErasableStmts ==
    {EnumStmt, ImportEqualsStmt,
     DeclarationStmt(TSDecl("TSInterfaceDeclaration", Sp(42, 52))),
     DeclarationStmt(TSDecl("TSTypeAliasDeclaration", Sp(43, 53))),
     DeclarationStmt(TSDecl("TSModuleDeclaration", Sp(44, 54))),
     ModuleStmt(TSDecl("TSExportAssignment", Sp(45, 55))),
     ModuleStmt(TSDecl("TSNamespaceExportDeclaration", Sp(46, 56))),
     ExportDefault(TSDecl("TSEnumDeclaration", Sp(55, 60))),
     ExportDefault(TSDecl("TSInterfaceDeclaration", Sp(55, 60)))}

ExprStmt(e) ==
    [type |-> "ExpressionStatement", span |-> Grow(GetSpan(e), 0, 1),
     expression |-> e]

VarDecl(kind, init) ==
    [type |-> "VariableDeclaration", span |-> Sp(30, 40), kind |-> kind,
     declarations |-> <<[type |-> "VariableDeclarator", span |-> Sp(34, 39),
                         kind |-> kind, id |-> BindingX, init |-> init,
                         definite |-> FALSE]>>]

DebuggerStmt == [type |-> "DebuggerStatement", span |-> Sp(60, 69)]

BadStmt == ExprStmt(BadUpdate)

\* Statements that survive and hold no statement of their own.
PlainStmts ==
    {[type |-> "EmptyStatement", span |-> Sp(70, 71)], DebuggerStmt, ExprStmt(X),
     ExprStmt(JSX("JSXElement", <<>>)), BadStmt,
     [type |-> "BreakStatement", span |-> Sp(72, 78), label |-> None],
     [type |-> "ReturnStatement", span |-> Sp(72, 80), argument |-> Some(X)],
     DeclarationStmt(VarDecl("Let", Some(One))),
     ExportNamed(Some(TSDecl("TSEnumDeclaration", Sp(47, 57)))),
     ExportNamed(Some(TSDecl("TSImportEqualsDeclaration", Sp(47, 57)))),
     ExportNamed(Some(VarDecl("Const", Some(X)))),
     ExportDefault([type |-> "Expression", expr |-> X])}

Label == [type |-> "LabelIdentifier", span |-> Sp(80, 81), name |-> "l"]

\* The statements with a required single-statement position, around body.
BodyParents(body) ==
    LET span == Grow(GetSpan(body), 8, 0)
    IN  {[type |-> "DoWhileStatement", span |-> Grow(GetSpan(body), 3, 9),
          body |-> body, test |-> X],
         [type |-> "WhileStatement", span |-> span, test |-> X, body |-> body],
         [type |-> "WithStatement", span |-> span, object |-> X, body |-> body],
         [type |-> "LabeledStatement", span |-> span, label |-> Label,
          body |-> body],
         [type |-> "ForStatement", span |-> span, init |-> None, test |-> None,
          update |-> None, body |-> body],
         [type |-> "ForStatement", span |-> span,
          init |-> Some([type |-> "Expression", expr |-> X]), test |-> Some(X),
          update |-> Some(Update("Increment", FALSE, GoodWrappedTarget)),
          body |-> body],
         [type |-> "ForInStatement", span |-> span,
          left |-> [type |-> "AssignmentTarget", target |-> AssignTargetX],
          right |-> X, body |-> body],
         [type |-> "ForOfStatement", span |-> span, await |-> FALSE,
          left |-> [type |-> "VariableDeclaration", decl |-> VarDecl("Const", None)],
          right |-> X, body |-> body]}

IfStmt(consequent, alternate) ==
    [type |-> "IfStatement", span |-> Sp(GetSpan(consequent).start - 8, 99),
     test |-> X, consequent |-> consequent, alternate |-> alternate]

Stmts0 == ErasableStmts \cup PlainStmts

\* The statements in the else position: erased ones, one that survives and
\* one whose lowering panics.
AlternateStmts ==
    {EnumStmt, ImportEqualsStmt,
     ModuleStmt(TSDecl("TSExportAssignment", Sp(45, 55))), DebuggerStmt, BadStmt}

RECURSIVE NestedStmts(_)
NestedStmts(depth) ==
    IF depth = 0 THEN Stmts0
    ELSE LET inner == NestedStmts(depth - 1)
         IN  inner
             \cup UNION {BodyParents(body) : body \in inner}
             \cup {IfStmt(consequent, alternate) :
                     consequent \in inner, alternate \in Opt(AlternateStmts)}

\* The elements of the statement lists: erased ones, surviving ones, one
\* that holds an erased statement, and one whose lowering panics.
ListStmts ==
    {EnumStmt, ModuleStmt(TSDecl("TSExportAssignment", Sp(45, 55))),
     ExportDefault(TSDecl("TSInterfaceDeclaration", Sp(55, 60))),
     DebuggerStmt, ExprStmt(X), IfStmt(EnumStmt, None), BadStmt}

StmtLists == SeqsUpTo(ListStmts, MaxLen)

Block(body) == [type |-> "BlockStatement", span |-> Sp(0, 100), body |-> body]

FunctionOf(type, body) ==
    [type |-> type, span |-> Sp(0, 100), id |-> Some(BindingX),
     expression |-> FALSE, generator |-> FALSE, async |-> FALSE,
     params |-> [type |-> "FormalParameters", span |-> Sp(2, 4),
                 kind |-> "FormalParameter", items |-> <<>>],
     body |-> body]

FunctionBody(statements) ==
    [type |-> "FunctionBody", span |-> Sp(5, 100), directives |-> <<>>,
     statements |-> statements]

ClassOf(type, elements) ==
    [type |-> type, span |-> Sp(0, 100), id |-> Some(BindingX),
     super_class |-> None,
     body |-> [type |-> "ClassBody", span |-> Sp(5, 100), body |-> elements],
     decorators |-> <<>>]

StaticBlock(body) == [type |-> "StaticBlock", span |-> Sp(6, 99), body |-> body]

\* The statements that hold a statement list.
ListParents(list) ==
    {Block(list),
     [type |-> "SwitchStatement", span |-> Sp(0, 100), discriminant |-> X,
      cases |-> <<[type |-> "SwitchCase", span |-> Sp(5, 99), test |-> Some(One),
                   consequent |-> list]>>],
     DeclarationStmt([type |-> "FunctionDeclaration",
                      func |-> FunctionOf("FunctionDeclaration",
                                          Some(FunctionBody(list)))]),
     DeclarationStmt([type |-> "ClassDeclaration",
                      class |-> ClassOf("ClassDeclaration", <<StaticBlock(list)>>)])}

Key == [type |-> "Identifier", ident |-> IdentName("k", Sp(10, 11))]

\* The members of a class body: the four that are lowered and the three
\* that are erased.
ClassElements ==
    {StaticBlock(<<DebuggerStmt>>),
     [type |-> "MethodDefinition", span |-> Sp(10, 20), key |-> Key,
      value |-> FunctionOf("FunctionExpression", Some(FunctionBody(<<>>))),
      kind |-> "Method", computed |-> FALSE, static |-> FALSE,
      override |-> FALSE, optional |-> FALSE, decorators |-> <<>>],
     [type |-> "PropertyDefinition", span |-> Sp(21, 30), key |-> Key,
      value |-> Some(One), computed |-> FALSE, static |-> FALSE,
      declare |-> FALSE, override |-> FALSE, optional |-> FALSE,
      definite |-> FALSE, readonly |-> FALSE, decorators |-> <<>>],
     [type |-> "AccessorProperty", span |-> Sp(31, 40), key |-> Key,
      value |-> None, computed |-> FALSE, static |-> FALSE],
     [type |-> "TSAbstractMethodDefinition", span |-> Sp(41, 50)],
     [type |-> "TSAbstractPropertyDefinition", span |-> Sp(51, 60)],
     [type |-> "TSIndexSignature", span |-> Sp(61, 70)]}

ClassStmts ==
    {DeclarationStmt([type |-> "ClassDeclaration",
                      class |-> ClassOf("ClassDeclaration", elements)]) :
        elements \in SeqsUpTo(ClassElements, MaxLen)}

Decorator == [type |-> "Decorator", span |-> Sp(1, 3), expression |-> X]

CatchClause(param, body) ==
    [type |-> "CatchClause", span |-> Sp(20, 90), param |-> param,
     body |-> Block(body)]

StringLit(value, span) == [type |-> "StringLiteral", span |-> span, value |-> value]

ImportAttributes ==
    Opt({<<>>, <<[type |-> "ImportAttribute", span |-> Sp(80, 90),
                  key |-> [type |-> "Identifier",
                           ident |-> IdentName("type", Sp(80, 84))],
                  value |-> StringLit("json", Sp(86, 90))]>>})

\* Statements with optional fields, each field present and absent.
OptionalStmts ==
    {[type |-> "ForStatement", span |-> Sp(0, 99), init |-> init, test |-> test,
      update |-> update, body |-> DebuggerStmt] :
        init \in Opt({[type |-> "Expression", expr |-> X],
                      [type |-> "VariableDeclaration",
                       decl |-> VarDecl("Let", Some(One))]}),
        test \in Opt({X}), update \in Opt({X})}
    \cup {[type |-> "ReturnStatement", span |-> Sp(72, 80), argument |-> argument] :
            argument \in Opt({X})}
    \cup {[type |-> type, span |-> Sp(72, 78), label |-> label] :
            type \in {"BreakStatement", "ContinueStatement"}, label \in Opt({Label})}
    \cup {[type |-> "TryStatement", span |-> Sp(0, 100), block |-> Block(<<DebuggerStmt>>),
           handler |-> handler, finalizer |-> finalizer] :
            handler \in Opt({CatchClause(param, <<ExprStmt(X)>>) :
                                param \in Opt({BindingX})}),
            finalizer \in Opt({Block(<<>>)})}
    \cup {[type |-> "ThrowStatement", span |-> Sp(72, 80), argument |-> X]}
    \cup {DeclarationStmt([type |-> "ClassDeclaration",
                           class |-> [ClassOf("ClassDeclaration", <<>>)
                                        EXCEPT !.id = id,
                                               !.super_class = super_class,
                                               !.decorators = decorators]]) :
            id \in Opt({BindingX}), super_class \in Opt({X}),
            decorators \in {<<>>, <<Decorator>>}}
    \cup {DeclarationStmt([type |-> "FunctionDeclaration",
                           func |-> [FunctionOf(type, body) EXCEPT !.id = id]]) :
            type \in {"FunctionDeclaration", "TSDeclareFunction"},
            body \in Opt({FunctionBody(<<DebuggerStmt>>)}),
            id \in Opt({BindingX})}
    \cup {DeclarationStmt(VarDecl(kind, init)) :
            kind \in {"Var", "Let", "Const"}, init \in Opt({One})}
    \cup {DeclarationStmt([type |-> "ClassDeclaration",
                           class |-> ClassOf("ClassDeclaration",
                                             <<[type |-> type, span |-> Sp(21, 30),
                                                key |-> Key, value |-> value,
                                                computed |-> FALSE,
                                                static |-> FALSE,
                                                declare |-> FALSE,
                                                override |-> FALSE,
                                                optional |-> FALSE,
                                                definite |-> FALSE,
                                                readonly |-> FALSE,
                                                decorators |-> <<>>]>>)]) :
            type \in {"PropertyDefinition", "AccessorProperty"},
            value \in Opt({One})}

\* import, export * and export {} with their optional parts, and the
\* default exports of each sub-kind.
ModuleStmts ==
    {ModuleStmt([type |-> "ImportDeclaration", span |-> Sp(0, 90),
                 specifiers |-> <<[type |-> "ImportDefaultSpecifier",
                                   span |-> Sp(7, 8), local |-> BindingX]>>,
                 source |-> StringLit("m", Sp(70, 73)),
                 assertions |-> assertions, import_kind |-> "Value"]) :
        assertions \in ImportAttributes}
    \cup {ModuleStmt([type |-> "ExportAllDeclaration", span |-> Sp(0, 90),
                      exported |-> exported, source |-> StringLit("m", Sp(70, 73)),
                      assertions |-> assertions, export_kind |-> "Value"]) :
            exported \in Opt({ExportName}), assertions \in ImportAttributes}
    \cup {ModuleStmt([type |-> "ExportNamedDeclaration", span |-> Sp(40, 75),
                      declaration |-> None,
                      specifiers |-> <<[type |-> "ExportSpecifier",
                                        span |-> Sp(48, 49),
                                        local |-> ExportName,
                                        exported |-> ExportName]>>,
                      source |-> source, export_kind |-> "Value"]) :
            source \in Opt({StringLit("m", Sp(70, 73))})}
    \cup {ExportDefault(kind) :
            kind \in {[type |-> "Expression", expr |-> X],
                      [type |-> "Expression", expr |-> BadUpdate],
                      [type |-> "Expression", expr |-> JSX("JSXElement", <<>>)],
                      [type |-> "FunctionDeclaration",
                       func |-> FunctionOf("FunctionDeclaration",
                                           Some(FunctionBody(<<>>)))],
                      [type |-> "ClassDeclaration",
                       class |-> ClassOf("ClassDeclaration", <<>>)],
                      TSDecl("TSEnumDeclaration", Sp(55, 60)),
                      TSDecl("TSInterfaceDeclaration", Sp(55, 60))}}

Statements ==
    NestedStmts(MaxNest) \cup UNION {ListParents(list) : list \in StmtLists}
    \cup ClassStmts \cup OptionalStmts \cup ModuleStmts

UseStrict ==
    [type |-> "Directive", span |-> Sp(0, 13),
     expression |-> [type |-> "StringLiteral", span |-> Sp(0, 12),
                     value |-> "use strict"],
     directive |-> "use strict"]

\* Statements full of what the pass erases, passes through or replaces.
RichStmts ==
    {EnumStmt, ModuleStmt(TSDecl("TSNamespaceExportDeclaration", Sp(46, 56))),
     ExportDefault(TSDecl("TSEnumDeclaration", Sp(55, 60))),
     ExportNamed(Some(TSDecl("TSEnumDeclaration", Sp(47, 57)))),
     DeclarationStmt([type |-> "ClassDeclaration",
                      class |-> ClassOf("ClassDeclaration",
                                        <<[type |-> "TSAbstractMethodDefinition",
                                           span |-> Sp(41, 50)],
                                          StaticBlock(<<EnumStmt>>),
                                          [type |-> "TSIndexSignature",
                                           span |-> Sp(61, 70)]>>)]),
     ExprStmt(JSX("JSXFragment", <<X>>)),
     ExprStmt(Wrapper("ParenthesizedExpression", Wrapper("TSAsExpression", X))),
     ExprStmt(Update("Increment", TRUE, GoodWrappedTarget)),
     IfStmt(EnumStmt, Some(EnumStmt)),
     [type |-> "WhileStatement", span |-> Sp(30, 50), test |-> X,
      body |-> ImportEqualsStmt],
     BadStmt}

\* Statements as a parser hands them over: no two nodes of a program with
\* the same span, and every span the place of the node in the text.  Each
\* statement lies in the hundred positions from at on.
IdentAt(name, at) == Ident(name, Sp(at, at + 1))

BindingAt(name, at) ==
    [type |-> "BindingIdentifier", span |-> Sp(at, at + 1), name |-> name]

DebuggerAt(at) == [type |-> "DebuggerStatement", span |-> Sp(at, at + 9)]

BlockAt(from, to, body) ==
    [type |-> "BlockStatement", span |-> Sp(from, to), body |-> body]

\* @d
DecoratorAt(at) ==
    [type |-> "Decorator", span |-> Sp(at, at + 2),
     expression |-> IdentAt("d", at + 1)]

\* (@d a) { return a; }, or () {} when plain
FunctionAt(type, at, id, plain) ==
    [type |-> type, span |-> Sp(at, at + 30), id |-> id,
     expression |-> FALSE, generator |-> FALSE, async |-> FALSE,
     params |-> [type |-> "FormalParameters", span |-> Sp(at + 2, at + 9),
                 kind |-> "FormalParameter",
                 items |-> IF plain THEN <<>>
                           ELSE <<[type |-> "FormalParameter",
                                   span |-> Sp(at + 3, at + 8),
                                   pattern |-> BindingAt("a", at + 6),
                                   decorators |-> <<DecoratorAt(at + 3)>>]>>],
     body |-> Some([type |-> "FunctionBody", span |-> Sp(at + 10, at + 30),
                    directives |-> <<>>,
                    statements |->
                        IF plain THEN <<>>
                        ELSE <<[type |-> "ReturnStatement",
                                span |-> Sp(at + 12, at + 21),
                                argument |-> Some(IdentAt("a", at + 19))]>>])]

\* try { debugger; } catch (e) { e; } finally {}
TryAt(at, bound, finally) ==
    [type |-> "TryStatement", span |-> Sp(at, at + 60),
     block |-> BlockAt(at + 4, at + 16, <<DebuggerAt(at + 6)>>),
     handler |-> Some([type |-> "CatchClause", span |-> Sp(at + 17, at + 40),
                       param |-> IF bound THEN Some(BindingAt("e", at + 24))
                                 ELSE None,
                       body |-> BlockAt(at + 27, at + 40,
                                        <<ExprStmt(IdentAt("e", at + 29))>>)]),
     finalizer |-> IF finally THEN Some(BlockAt(at + 49, at + 52, <<>>)) ELSE None]

\* @d class C extends B { @d m(@d a) { return a; } @d k = 1; [i: T]: U;
\* static { debugger; } }
ClassAt(at, decorated) ==
    DeclarationStmt(
        [type |-> "ClassDeclaration",
         class |->
            [type |-> "ClassDeclaration", span |-> Sp(at, at + 99),
             id |-> Some(BindingAt("C", at + 9)),
             super_class |-> Some(IdentAt("B", at + 19)),
             body |->
                [type |-> "ClassBody", span |-> Sp(at + 21, at + 99),
                 body |->
                    <<[type |-> "MethodDefinition", span |-> Sp(at + 23, at + 56),
                       key |-> [type |-> "Identifier",
                                ident |-> IdentName("m", Sp(at + 25, at + 26))],
                       value |-> FunctionAt("FunctionExpression", at + 26, None,
                                            ~decorated),
                       kind |-> "Method", computed |-> FALSE, static |-> FALSE,
                       override |-> FALSE, optional |-> FALSE,
                       decorators |-> IF decorated THEN <<DecoratorAt(at + 23)>>
                                      ELSE <<>>],
                      [type |-> "PropertyDefinition", span |-> Sp(at + 57, at + 65),
                       key |-> [type |-> "Identifier",
                                ident |-> IdentName("k", Sp(at + 60, at + 61))],
                       value |-> Some(Num(1, Sp(at + 64, at + 65))),
                       computed |-> FALSE, static |-> FALSE, declare |-> FALSE,
                       override |-> FALSE, optional |-> FALSE,
                       definite |-> FALSE, readonly |-> FALSE,
                       decorators |-> IF decorated THEN <<DecoratorAt(at + 57)>>
                                      ELSE <<>>],
                      [type |-> "TSIndexSignature", span |-> Sp(at + 66, at + 78)],
                      [type |-> "StaticBlock", span |-> Sp(at + 80, at + 98),
                       body |-> <<DebuggerAt(at + 88)>>]>>],
             decorators |-> IF decorated THEN <<DecoratorAt(at)>> ELSE <<>>]])

\* a?.b; and f?.(1);
ChainAt(at, called) ==
    ExprStmt(
        [type |-> "ChainExpression", span |-> Sp(at, at + 7),
         expression |->
            IF called
            THEN [type |-> "CallExpression", span |-> Sp(at, at + 6),
                  callee |-> IdentAt("f", at),
                  arguments |-> <<[type |-> "Expression",
                                   expr |-> Num(1, Sp(at + 4, at + 5))]>>,
                  optional |-> TRUE]
            ELSE MemberExpr([type |-> "StaticMemberExpression",
                             span |-> Sp(at, at + 4),
                             object |-> IdentAt("a", at),
                             property |-> IdentName("b", Sp(at + 3, at + 4)),
                             optional |-> TRUE])])

\* The statements at one place of a placed program.
PlacedStmts(at) ==
    {TryAt(at, bound, finally) : bound, finally \in BOOLEAN}
    \cup {ClassAt(at, decorated) : decorated \in BOOLEAN}
    \cup {ChainAt(at, called) : called \in BOOLEAN}
    \cup {DeclarationStmt([type |-> "FunctionDeclaration",
                           func |-> FunctionAt("FunctionDeclaration", at,
                                               Some(BindingAt("f", at + 1)),
                                               FALSE)]),
          \* if (x) y; else z;
          [type |-> "IfStatement", span |-> Sp(at, at + 20),
           test |-> IdentAt("x", at + 4),
           consequent |-> ExprStmt(IdentAt("y", at + 7)),
           alternate |-> Some(ExprStmt(IdentAt("z", at + 15)))],
          \* for (i; t; u) debugger;
          [type |-> "ForStatement", span |-> Sp(at, at + 25),
           init |-> Some([type |-> "Expression", expr |-> IdentAt("i", at + 5)]),
           test |-> Some(IdentAt("t", at + 8)),
           update |-> Some(IdentAt("u", at + 11)), body |-> DebuggerAt(at + 14)],
          \* while (x) {}
          [type |-> "WhileStatement", span |-> Sp(at, at + 12),
           test |-> IdentAt("x", at + 7), body |-> BlockAt(at + 10, at + 12, <<>>)],
          \* do debugger; while (x)
          [type |-> "DoWhileStatement", span |-> Sp(at, at + 25),
           body |-> DebuggerAt(at + 3), test |-> IdentAt("x", at + 20)],
          \* let a = 1;
          DeclarationStmt(
              [type |-> "VariableDeclaration", span |-> Sp(at, at + 10),
               kind |-> "Let",
               declarations |-> <<[type |-> "VariableDeclarator",
                                   span |-> Sp(at + 4, at + 9), kind |-> "Let",
                                   id |-> BindingAt("a", at + 4),
                                   init |-> Some(Num(1, Sp(at + 8, at + 9))),
                                   definite |-> FALSE]>>]),
          \* enum E {}
          DeclarationStmt(TSDecl("TSEnumDeclaration", Sp(at, at + 10))),
          \* <>{x}</>
          ExprStmt([type |-> "JSXFragment", span |-> Sp(at, at + 10),
                    children |-> <<IdentAt("x", at + 3)>>]),
          \* a = b + c;
          ExprStmt([type |-> "AssignmentExpression", span |-> Sp(at, at + 9),
                    operator |-> "Assign",
                    left |-> SimpleTarget([type |-> "AssignmentTargetIdentifier",
                                           span |-> Sp(at, at + 1), name |-> "a"]),
                    right |-> [type |-> "BinaryExpression",
                               span |-> Sp(at + 4, at + 9),
                               left |-> IdentAt("b", at + 4),
                               operator |-> "Addition",
                               right |-> IdentAt("c", at + 8)]]),
          \* (x as T);
          ExprStmt(Wrapper("ParenthesizedExpression",
                           Wrapper("TSAsExpression", IdentAt("x", at + 1)))),
          \* import a from "m";
          ModuleStmt([type |-> "ImportDeclaration", span |-> Sp(at, at + 18),
                      specifiers |-> <<[type |-> "ImportDefaultSpecifier",
                                        span |-> Sp(at + 7, at + 8),
                                        local |-> BindingAt("a", at + 7)]>>,
                      source |-> StringLit("m", Sp(at + 14, at + 17)),
                      assertions |-> None, import_kind |-> "Value"]),
          \* export default interface I {}
          ModuleStmt([type |-> "ExportDefaultDeclaration",
                      span |-> Sp(at, at + 30),
                      declaration |-> TSDecl("TSInterfaceDeclaration",
                                             Sp(at + 15, at + 30)),
                      exported |-> [type |-> "Identifier",
                                    ident |-> IdentName("default",
                                                        Sp(at + 7, at + 14))]])}

PlacedPrograms ==
    {[type |-> "Program", span |-> Sp(0, 200), directives |-> <<>>,
      body |-> <<first>>] : first \in PlacedStmts(0)}
    \cup {[type |-> "Program", span |-> Sp(0, 200), directives |-> <<>>,
           body |-> <<first, second>>] :
            first \in PlacedStmts(0), second \in PlacedStmts(100)}

Programs ==
    {[type |-> "Program", span |-> Sp(0, 100), directives |-> directives,
      body |-> body] :
        directives \in {<<>>, <<UseStrict>>},
        body \in StmtLists \cup {<<a, b>> : a, b \in RichStmts}}

---------------------------------------------------------------------------
(* Functions, declarations, modules and lists as inputs *)

\* The three flags of a function: expression, generator, async.
FunctionFlags == {<<e, g, a>> : e \in BOOLEAN, g \in BOOLEAN, a \in BOOLEAN}

FlaggedFunction(type, id, body, flags) ==
    [FunctionOf(type, body) EXCEPT !.id = id, !.expression = flags[1],
                                   !.generator = flags[2], !.async = flags[3]]

\* function f() {}, declare function f(); and their anonymous forms, under
\* every setting of the flags.
FunctionStmts ==
    {DeclarationStmt([type |-> "FunctionDeclaration",
                      func |-> FlaggedFunction(type, id, body, flags)]) :
        type \in {"FunctionDeclaration", "TSDeclareFunction"},
        id \in Opt({BindingX}),
        body \in Opt({FunctionBody(<<DebuggerStmt>>)}),
        flags \in FunctionFlags}

\* (function f() {}), (function () {}) and () => {} under every setting of
\* the flags.
FunctionExprs ==
    {[type |-> "FunctionExpression",
      func |-> FlaggedFunction("FunctionExpression", id,
                               Some(FunctionBody(<<DebuggerStmt>>)), flags)] :
        id \in Opt({BindingX}), flags \in FunctionFlags}
    \cup {[type |-> "ArrowFunctionExpression", span |-> Sp(0, 100),
           expression |-> flags[1], generator |-> flags[2], async |-> flags[3],
           params |-> FunctionOf("FunctionExpression", None).params,
           body |-> FunctionBody(statements)] :
            flags \in FunctionFlags, statements \in {<<>>, <<EnumStmt>>}}

Declarator(kind, id, init, definite) ==
    [type |-> "VariableDeclarator", span |-> Sp(34, 39), kind |-> kind,
     id |-> id, init |-> init, definite |-> definite]

\* a, b! = 1 and {} = x as declarators, each with a kind of its own.
Declarators ==
    {Declarator("Var", BindingX, None, FALSE),
     Declarator("Let", BindingX, Some(One), TRUE),
     Declarator("Const",
                [type |-> "ObjectPattern", span |-> Sp(34, 36),
                 properties |-> <<>>],
                Some(X), FALSE)}

\* var, let and const declarations of one to MaxLen declarators.
VariableStmts ==
    {DeclarationStmt([type |-> "VariableDeclaration", span |-> Sp(30, 40),
                      kind |-> kind, declarations |-> declarations]) :
        kind \in {"Var", "Let", "Const"},
        declarations \in SeqsUpTo(Declarators, MaxLen) \ {<<>>}}

\* {k as x}, x and * as x in an import.
ImportSpecifiers ==
    {[type |-> "ImportSpecifier", span |-> Sp(8, 14), imported |-> Key,
      local |-> BindingX],
     [type |-> "ImportDefaultSpecifier", span |-> Sp(7, 8), local |-> BindingX],
     [type |-> "ImportNamespaceSpecifier", span |-> Sp(7, 13),
      local |-> BindingX]}

\* import and export *, of values and of types.
ImportStmts ==
    {ModuleStmt([type |-> "ImportDeclaration", span |-> Sp(0, 90),
                 specifiers |-> specifiers,
                 source |-> StringLit("m", Sp(70, 73)),
                 assertions |-> None, import_kind |-> kind]) :
        specifiers \in SeqsUpTo(ImportSpecifiers, MaxLen),
        kind \in {"Value", "Type"}}
    \cup {ModuleStmt([type |-> "ExportAllDeclaration", span |-> Sp(0, 90),
                      exported |-> exported,
                      source |-> StringLit("m", Sp(70, 73)),
                      assertions |-> None, export_kind |-> kind]) :
            exported \in Opt({ExportName}), kind \in {"Value", "Type"}}

\* One declaration of each variant: the three that are lowered and the
\* five TypeScript ones.
Declarations ==
    {VarDecl("Const", Some(One)),
     [type |-> "FunctionDeclaration",
      func |-> FunctionOf("FunctionDeclaration", Some(FunctionBody(<<>>)))],
     [type |-> "FunctionDeclaration",
      func |-> FunctionOf("TSDeclareFunction", None)],
     [type |-> "ClassDeclaration", class |-> ClassOf("ClassDeclaration", <<>>)],
     TSDecl("TSEnumDeclaration", Sp(47, 57)),
     TSDecl("TSImportEqualsDeclaration", Sp(47, 57)),
     TSDecl("TSInterfaceDeclaration", Sp(47, 57)),
     TSDecl("TSTypeAliasDeclaration", Sp(47, 57)),
     TSDecl("TSModuleDeclaration", Sp(47, 57))}

\* Each declaration as a statement, and exported by name; export {} too.
DeclarationStmts ==
    {DeclarationStmt(decl) : decl \in Declarations}
    \cup {ModuleStmt([type |-> "ExportNamedDeclaration", span |-> Sp(40, 60),
                      declaration |-> declaration, specifiers |-> <<>>,
                      source |-> None, export_kind |-> kind]) :
            declaration \in Opt(Declarations), kind \in {"Value", "Type"}}

Lists(S) == SeqsUpTo(S, MaxLen)

Spread(e) == [type |-> "SpreadElement", span |-> Grow(GetSpan(e), 3, 0), argument |-> e]

\* x and ...1 as arguments.
Arguments == {[type |-> "Expression", expr |-> X], Spread(One)}

\* The i-th quasi of a template of n expressions.
Quasi(i, n) ==
    [type |-> "TemplateElement", span |-> Sp(20 + 5 * i, 22 + 5 * i),
     tail |-> (i = n + 1), value |-> [raw |-> i, cooked |-> Some(i)]]

\* k: x and ...1 in an object.
ObjectProperties ==
    {[type |-> "Property", span |-> Sp(10, 14), kind |-> "Init", key |-> Key,
      value |-> [type |-> "Expression", expr |-> X], method |-> FALSE,
      shorthand |-> FALSE, computed |-> FALSE],
     [type |-> "SpreadProperty", spread |-> Spread(One)]}

\* f(...), new x(...), import(x, ...), (x, 1), `${x}${1}` and {...} with
\* every list of up to MaxLen elements.
ListExprs ==
    {Call(X, arguments, FALSE) : arguments \in Lists(Arguments)}
    \cup {[type |-> "NewExpression", span |-> Sp(6, 30), callee |-> X,
           arguments |-> arguments] : arguments \in Lists(Arguments)}
    \cup {[type |-> "ImportExpression", span |-> Sp(3, 30), source |-> X,
           arguments |-> arguments] : arguments \in Lists({X, One})}
    \cup {[type |-> "SequenceExpression", span |-> Sp(10, 30),
           expressions |-> expressions] :
            expressions \in Lists({X, One}) \ {<<>>}}
    \cup {[type |-> "TemplateLiteral", span |-> Sp(10, 60),
           quasis |-> [i \in 1..(Len(expressions) + 1) |->
                          Quasi(i, Len(expressions))],
           expressions |-> expressions] : expressions \in Lists({X, One})}
    \cup {[type |-> "ObjectExpression", span |-> Sp(9, 30),
           properties |-> properties, trailing_comma |-> None] :
            properties \in Lists(ObjectProperties)}

\* case 1: debugger; and default: enum E {}
SwitchCases ==
    {[type |-> "SwitchCase", span |-> Sp(5, 25), test |-> Some(One),
      consequent |-> <<DebuggerStmt>>],
     [type |-> "SwitchCase", span |-> Sp(26, 50), test |-> None,
      consequent |-> <<EnumStmt>>]}

\* @x and @1
Decorators == {Decorator, [Decorator EXCEPT !.expression = One]}

\* x and @x x as parameters.
FormalParameters ==
    {[type |-> "FormalParameter", span |-> Sp(2, 3), pattern |-> BindingX,
      decorators |-> decorators] : decorators \in {<<>>, <<Decorator>>}}

Directives == {UseStrict, [UseStrict EXCEPT !.directive = "use asm"]}

ExportSpecifiers ==
    {[type |-> "ExportSpecifier", span |-> Sp(48, 49), local |-> ExportName,
      exported |-> ExportName],
     [type |-> "ExportSpecifier", span |-> Sp(50, 51), local |-> Key,
      exported |-> ExportName]}

ImportAttributeItems ==
    {[type |-> "ImportAttribute", span |-> Sp(80, 90), key |-> Key,
      value |-> StringLit("json", Sp(86, 90))],
     [type |-> "ImportAttribute", span |-> Sp(91, 99),
      key |-> [type |-> "StringLiteral", lit |-> StringLit("t", Sp(91, 94))],
      value |-> StringLit("css", Sp(96, 99))]}

\* The statements with a list of cases, parameters, decorators, directives,
\* export specifiers or import attributes, each list of up to MaxLen
\* elements.
ListOwnerStmts ==
    {[type |-> "SwitchStatement", span |-> Sp(0, 100), discriminant |-> X,
      cases |-> cases] : cases \in Lists(SwitchCases)}
    \cup {DeclarationStmt(
            [type |-> "FunctionDeclaration",
             func |-> [FunctionOf("FunctionDeclaration",
                                  Some(FunctionBody(<<>>)))
                         EXCEPT !.params.items = items]]) :
            items \in Lists(FormalParameters)}
    \cup {DeclarationStmt(
            [type |-> "FunctionDeclaration",
             func |-> FunctionOf("FunctionDeclaration",
                                 Some([FunctionBody(<<>>)
                                         EXCEPT !.directives = directives]))]) :
            directives \in Lists(Directives)}
    \cup {DeclarationStmt(
            [type |-> "ClassDeclaration",
             class |-> [ClassOf("ClassDeclaration", <<>>)
                          EXCEPT !.decorators = decorators]]) :
            decorators \in Lists(Decorators)}
    \cup {ModuleStmt([type |-> "ExportNamedDeclaration", span |-> Sp(40, 75),
                      declaration |-> None, specifiers |-> specifiers,
                      source |-> None, export_kind |-> "Value"]) :
            specifiers \in Lists(ExportSpecifiers)}
    \cup {ModuleStmt([type |-> "ImportDeclaration", span |-> Sp(0, 100),
                      specifiers |-> <<>>,
                      source |-> StringLit("m", Sp(70, 73)),
                      assertions |-> Some(attributes),
                      import_kind |-> "Value"]) :
            attributes \in Lists(ImportAttributeItems)}

\* Programs of up to MaxLen directives.
DirectivePrograms ==
    {[type |-> "Program", span |-> Sp(0, 100), directives |-> directives,
      body |-> <<DebuggerStmt>>] : directives \in Lists(Directives)}

---------------------------------------------------------------------------
(* The state machine: a rule is invoked on a fresh AstLower and runs *)

Inputs(r) ==
    CASE r = "build" -> Programs \cup PlacedPrograms \cup DirectivePrograms
      [] r = "lower_statements" -> StmtLists
      [] r = "lower_statement" ->
            Statements \cup FunctionStmts \cup VariableStmts \cup ImportStmts
            \cup DeclarationStmts \cup ListOwnerStmts
      [] r = "lower_statement_or_empty" -> NestedStmts(MaxNest - 1)
      [] r = "lower_expression" -> Exprs \cup FunctionExprs \cup ListExprs
      [] r = "lower_assignment_target" -> AssignmentTargets
      [] r = "lower_simple_assignment_target" -> SimpleTargets
      [] r = "lower_binding_pattern" -> BindingPatterns

Rules ==
    {"build", "lower_statements", "lower_statement", "lower_statement_or_empty",
     "lower_expression", "lower_assignment_target",
     "lower_simple_assignment_target", "lower_binding_pattern"}

Init ==
    /\ rule \in Rules
    /\ arg \in Inputs(rule)
    /\ pc = "call"
    /\ ret = <<>>
    /\ prev = <<>>

\* The rule ends: it hands back value, unless a panic unwound through it
\* (kids are the nodes of value a panic can sit in).
Return(value, kids) ==
    /\ pc' = IF AnyPanic(kids) THEN "panicked" ELSE "returned"
    /\ ret' = IF AnyPanic(kids) THEN <<>> ELSE <<value>>
    /\ UNCHANGED <<rule, arg, prev>>

Build ==
    /\ rule = "build" /\ pc = "call"
    /\ LET program == self("lower_program", arg) IN Return(program, <<program>>)

LowerStatements ==
    /\ rule = "lower_statements" /\ pc = "call"
    /\ LET statements == self("lower_statements", arg) IN Return(statements, statements)

LowerStatement ==
    /\ rule = "lower_statement" /\ pc = "call"
    /\ LET statement == self("lower_statement", arg) IN Return(statement, statement)

LowerStatementOrEmpty ==
    /\ rule = "lower_statement_or_empty" /\ pc = "call"
    /\ LET statement == self("lower_statement_or_empty", arg)
       IN  Return(statement, <<statement>>)

LowerExpression ==
    /\ rule = "lower_expression" /\ pc = "call"
    /\ LET expr == self("lower_expression", arg) IN Return(expr, <<expr>>)

LowerAssignmentTarget ==
    /\ rule = "lower_assignment_target" /\ pc = "call"
    /\ LET target == self("lower_assignment_target", arg) IN Return(target, <<target>>)

LowerSimpleAssignmentTarget ==
    /\ rule = "lower_simple_assignment_target" /\ pc = "call"
    /\ LET target == self("lower_simple_assignment_target", arg)
       IN  Return(target, <<target>>)

LowerBindingPattern ==
    /\ rule = "lower_binding_pattern" /\ pc = "call"
    /\ LET pat == self("lower_binding_pattern", arg) IN Return(pat, <<pat>>)

\* AstLower::new(..).build(program) once more: the finished AstLower is
\* dropped, a new one is made and handed the same program.
Rebuild ==
    /\ rule = "build" /\ pc # "call" /\ Len(prev) + 1 < MaxBuilds
    /\ prev' = Append(prev, [pc |-> pc, ret |-> ret])
    /\ pc' = "call"
    /\ ret' = <<>>
    /\ UNCHANGED <<rule, arg>>

Next ==
    \/ Build
    \/ Rebuild
    \/ LowerStatements
    \/ LowerStatement
    \/ LowerStatementOrEmpty
    \/ LowerExpression
    \/ LowerAssignmentTarget
    \/ LowerSimpleAssignmentTarget
    \/ LowerBindingPattern

Spec == Init /\ [][Next]_vars

\* The builds of the placed programs alone.
BuildInit == Init /\ rule = "build" /\ arg \in PlacedPrograms

BuildNext == Build \/ Rebuild

\* build has been called and has not run yet: Build is enabled.
Started == rule = "build" /\ pc = "call"

\* A build that has been started runs, nothing outside the pass holds it
\* up: weak fairness of Build, WF_vars(Build), with ENABLED <<Build>>_vars
\* written out as Started.
BuildSpec ==
    /\ BuildInit /\ [][BuildNext]_vars
    /\ ([]<>(~Started) \/ []<><<Build>>_vars)

Returned == pc = "returned"

Result == ret[1]

---------------------------------------------------------------------------
(* What the specification calls erasable, stated apart from the rules *)

TSOnlyDeclarations ==
    {"TSEnumDeclaration", "TSImportEqualsDeclaration", "TSInterfaceDeclaration",
     "TSTypeAliasDeclaration", "TSModuleDeclaration"}

\* A statement with no runtime meaning: a TS-only declaration, a TS export
\* assignment or namespace export, a default export of an enum or interface.
Erasable(stmt) ==
    \/ /\ stmt.type = "Declaration"
       /\ stmt.decl.type \in TSOnlyDeclarations
    \/ /\ stmt.type = "ModuleDeclaration"
       /\ \/ stmt.decl.type \in {"TSExportAssignment", "TSNamespaceExportDeclaration"}
          \/ /\ stmt.decl.type = "ExportDefaultDeclaration"
             /\ stmt.decl.declaration.type \in {"TSEnumDeclaration",
                                                "TSInterfaceDeclaration"}

Survivors(stmts) == SelectSeq(stmts, LAMBDA stmt : ~Erasable(stmt))

\* out is stmts without its erasable statements: as many statements as
\* survive, the i-th being the lowering of the i-th survivor, of its variant
\* and at its span.
ErasedOnly(stmts, out) ==
    LET kept == Survivors(stmts)
    IN  /\ Len(out) = Len(kept)
        /\ \A i \in 1..Len(kept) :
              /\ Some(out[i]) = self("lower_statement", kept[i])
              /\ out[i].type = kept[i].type
              /\ GetSpan(out[i]) = GetSpan(kept[i])

EmptyAt(span) == [type |-> "EmptyStatement", span |-> span]

BodyStatements ==
    {"DoWhileStatement", "WhileStatement", "ForStatement", "ForInStatement",
     "ForOfStatement", "WithStatement", "LabeledStatement"}

---------------------------------------------------------------------------
(* C1 *)

\* C1: every statement list lowered by lower_statements (program body, block
\* body, function body, switch-case consequent, static block body) comes out
\* as the input list without its erasable statements: N - E statements, the
\* i-th being the lowering of the i-th non-erased input statement, none
\* reordered or duplicated.
C1_ListsLoseOnlyErased ==
    Returned =>
        /\ rule = "build" => ErasedOnly(arg.body, Result.body)
        /\ rule = "lower_statements" => ErasedOnly(arg, Result)
        /\ (rule = "lower_statement" /\ arg.type = "BlockStatement") =>
              ErasedOnly(arg.body, Result[1].body)
        /\ (rule = "lower_statement" /\ arg.type = "SwitchStatement") =>
              \A i \in 1..Len(arg.cases) :
                  ErasedOnly(arg.cases[i].consequent, Result[1].cases[i].consequent)
        /\ (rule = "lower_statement" /\ arg.type = "Declaration"
                /\ arg.decl.type = "FunctionDeclaration"
                /\ arg.decl.func.body # None) =>
              ErasedOnly(arg.decl.func.body[1].statements,
                         Result[1].decl.func.body[1].statements)
        /\ (rule = "lower_statement" /\ arg.type = "Declaration"
                /\ arg.decl.type = "ClassDeclaration"
                /\ arg.decl.class.body.body # <<>>
                /\ arg.decl.class.body.body[1].type = "StaticBlock") =>
              ErasedOnly(arg.decl.class.body.body[1].body,
                         Result[1].decl.class.body.body[1].body)

\* A program of three statements, the first erased, is lowered to two.
C1_Witness ==
    /\ Returned /\ rule = "build"
    /\ Len(arg.body) = 3 /\ Erasable(arg.body[1])
    /\ ~Erasable(arg.body[2]) /\ ~Erasable(arg.body[3])
    /\ arg.body[2] # arg.body[3]
    /\ Len(Result.body) = 2

---------------------------------------------------------------------------
(* C2 *)

\* C2: in a required single-statement position (if consequent; do-while,
\* while, for, for-in, for-of and with bodies; labeled-statement body) an
\* erasable statement leaves an empty statement at the erased statement's
\* span; the position is never absent and the parent is never dropped.
C2_RequiredPositionsFilled ==
    Returned =>
        /\ (rule = "lower_statement_or_empty" /\ Erasable(arg)) =>
              Result = EmptyAt(GetSpan(arg))
        /\ (rule = "lower_statement" /\ arg.type \in BodyStatements
                /\ Erasable(arg.body)) =>
              /\ Result # None
              /\ Result[1].type = arg.type
              /\ GetSpan(Result[1]) = GetSpan(arg)
              /\ Result[1].body = EmptyAt(GetSpan(arg.body))
        /\ (rule = "lower_statement" /\ arg.type = "IfStatement"
                /\ Erasable(arg.consequent)) =>
              /\ Result # None
              /\ Result[1].type = "IfStatement"
              /\ GetSpan(Result[1]) = GetSpan(arg)
              /\ Result[1].consequent = EmptyAt(GetSpan(arg.consequent))

\* while (x) enum E {} has been lowered.
C2_Witness ==
    /\ Returned /\ rule = "lower_statement"
    /\ arg.type = "WhileStatement" /\ arg.body = EnumStmt
    /\ Result[1].body.type = "EmptyStatement"

---------------------------------------------------------------------------
(* C3 *)

\* C3: the lowered alternate of an if statement is present exactly when the
\* input alternate is present; an erasable input alternate is lowered to an
\* empty statement, not to an absent alternate.
C3_AlternatePresenceKept ==
    (Returned /\ rule = "lower_statement" /\ arg.type = "IfStatement") =>
        /\ (Result[1].alternate # None) <=> (arg.alternate # None)
        /\ (arg.alternate # None /\ Erasable(arg.alternate[1])) =>
              Result[1].alternate = Some(EmptyAt(GetSpan(arg.alternate[1])))

---------------------------------------------------------------------------
(* C4 *)

AlwaysErased == {"TSEnumDeclaration", "TSImportEqualsDeclaration"}

IsAlwaysErased(stmt) == stmt.type = "Declaration" /\ stmt.decl.type \in AlwaysErased

\* No statement of out is a declaration of an enum or an import-equals, and
\* none sits at the span of such a declaration of stmts.
NoneFor(stmts, out) ==
    /\ Len(out) <= Len(stmts) - Cardinality({i \in 1..Len(stmts) : IsAlwaysErased(stmts[i])})
    /\ \A j \in 1..Len(out) :
          /\ ~IsAlwaysErased(out[j])
          /\ \A i \in 1..Len(stmts) :
                IsAlwaysErased(stmts[i]) => GetSpan(out[j]) # GetSpan(stmts[i])

\* C4: a TS enum declaration or TS import-equals declaration yields no output
\* declaration in any position (statement list, required single-statement
\* position, named export, default export); as an element of a statement
\* list it leaves no statement in the output list.
C4_EnumAndImportEqualsErased ==
    Returned =>
        /\ (rule = "lower_statement" /\ IsAlwaysErased(arg)) => Result = None
        /\ (rule = "lower_statement_or_empty" /\ IsAlwaysErased(arg)) =>
              Result.type = "EmptyStatement"
        /\ (rule = "lower_statement" /\ arg.type = "ModuleDeclaration"
                /\ arg.decl.type = "ExportNamedDeclaration"
                /\ arg.decl.declaration # None
                /\ arg.decl.declaration[1].type \in AlwaysErased) =>
              /\ Result # None
              /\ Result[1].decl.declaration = None
        /\ (rule = "lower_statement" /\ arg.type = "ModuleDeclaration"
                /\ arg.decl.type = "ExportDefaultDeclaration"
                /\ arg.decl.declaration.type \in AlwaysErased) =>
              Result = None
        /\ rule = "build" => NoneFor(arg.body, Result.body)
        /\ rule = "lower_statements" => NoneFor(arg, Result)
        /\ (rule = "lower_statement" /\ arg.type = "BlockStatement") =>
              NoneFor(arg.body, Result[1].body)

\* A list with an enum declaration between two other statements is lowered.
C4_Witness ==
    /\ Returned /\ rule = "lower_statements"
    /\ Len(arg) = 3 /\ arg[2] = EnumStmt
    /\ ~Erasable(arg[1]) /\ ~Erasable(arg[3])
    /\ Len(Result) = 2

---------------------------------------------------------------------------
(* C5 *)

\* The expression under a stack of passthrough wrappers.
RECURSIVE Strip(_)
Strip(e) == IF e.type \in WrapperKinds THEN Strip(e.expression) ELSE e

RECURSIVE Depth(_)
Depth(e) == IF e.type \in WrapperKinds THEN 1 + Depth(e.expression) ELSE 0

\* C5: for a stack W of passthrough wrappers (parentheses, as, satisfies,
\* non-null, type assertion, instantiation) of any depth around e,
\* lower_expression(W(e)) is lower_expression(e): it ends as e's lowering
\* ends, no node stands for a wrapper and the result's span is e's span,
\* at the root and in an operand alike.
C5_WrappersPassThrough ==
    /\ (rule = "lower_expression" /\ pc # "call" /\ arg.type \in WrapperKinds) =>
          /\ self("lower_expression", arg) = self("lower_expression", Strip(arg))
          /\ pc = "panicked" <=> self("lower_expression", Strip(arg)) = Panic
          /\ Returned =>
                /\ Result = self("lower_expression", Strip(arg))
                /\ Result.type \notin WrapperKinds
                /\ GetSpan(Result) = GetSpan(Strip(arg))
                /\ GetSpan(Result) # GetSpan(arg)
    /\ (Returned /\ rule = "lower_expression" /\ arg.type = "BinaryExpression"
            /\ arg.left.type \in WrapperKinds) =>
          /\ Result.left = self("lower_expression", Strip(arg.left))
          /\ GetSpan(Result.left) = GetSpan(Strip(arg.left))

\* ((x + 1) as T) and the like, two wrappers deep, has been lowered to the
\* binary expression.
C5_Witness ==
    /\ Returned /\ rule = "lower_expression"
    /\ Depth(arg) = 2 /\ arg.type # arg.expression.type
    /\ Strip(arg).type = "BinaryExpression"
    /\ Result.type = "BinaryExpression"

---------------------------------------------------------------------------
(* C6 *)

IsJSX(e) == e.type \in {"JSXElement", "JSXFragment"}

VoidAt(span) == [type |-> "Identifier", span |-> span, name |-> "void"]

\* C6: a JSX element or fragment in any expression position is lowered to
\* the identifier reference named "void" at the element's span; its children
\* are not lowered (a child whose lowering would panic changes nothing) and
\* nothing else stands for it.
C6_JSXBecomesVoid ==
    /\ (rule = "lower_expression" /\ pc # "call" /\ IsJSX(Strip(arg))) =>
          /\ Returned
          /\ Result = VoidAt(Strip(arg).span)
    /\ (rule = "lower_statement" /\ pc # "call" /\ arg.type = "ExpressionStatement"
            /\ IsJSX(arg.expression)) =>
          /\ Returned
          /\ Result[1].type = "ExpressionStatement"
          /\ Result[1].expression = VoidAt(arg.expression.span)

\* A fragment whose child could not be lowered has been lowered.
C6_Witness ==
    /\ Returned /\ rule = "lower_expression"
    /\ arg.type = "JSXFragment" /\ arg.children = <<BadUpdate>>
    /\ Result.name = "void"

---------------------------------------------------------------------------
(* C7 *)

\* The spans of two lists of nodes agree place by place.
SameSpans(nodes, out) ==
    /\ Len(out) = Len(nodes)
    /\ \A i \in 1..Len(nodes) : GetSpan(out[i]) = GetSpan(nodes[i])

\* The non-wrapper operands of an expression keep their spans.
OperandSpans(e, out) ==
    /\ e.type \in {"BinaryExpression", "LogicalExpression"} =>
          /\ GetSpan(out.left) = GetSpan(Strip(e.left))
          /\ GetSpan(out.right) = GetSpan(Strip(e.right))
    /\ e.type = "UnaryExpression" => GetSpan(out.argument) = GetSpan(Strip(e.argument))
    /\ e.type = "ConditionalExpression" =>
          /\ GetSpan(out.test) = GetSpan(e.test)
          /\ GetSpan(out.consequent) = GetSpan(e.consequent)
          /\ GetSpan(out.alternate) = GetSpan(e.alternate)
    /\ e.type = "SequenceExpression" => SameSpans(e.expressions, out.expressions)
    /\ e.type = "CallExpression" => GetSpan(out.callee) = GetSpan(e.callee)
    /\ (e.type = "UpdateExpression" /\ e.argument.type \notin TargetWrapperKinds) =>
          GetSpan(out.argument) = GetSpan(e.argument)
    /\ (e.type = "AssignmentExpression"
            /\ GetSpan(e.left).start = GetSpan(out.left).start) =>
          GetSpan(out.right) = GetSpan(e.right)

\* C7: every node put out by a rule that neither erases nor passes through
\* carries the span of the input node it stands for: the Program, its
\* directives, every statement, expression, pattern, identifier and literal,
\* and the empty statement put in the place of an erased statement.
C7_SpansKept ==
    Returned =>
        /\ rule = "build" =>
              /\ Result.span = arg.span
              /\ SameSpans(arg.directives, Result.directives)
              /\ \A i \in 1..Len(arg.directives) :
                    Result.directives[i].expression.span
                        = arg.directives[i].expression.span
              /\ SameSpans(Survivors(arg.body), Result.body)
        /\ rule = "lower_statements" => SameSpans(Survivors(arg), Result)
        /\ (rule = "lower_statement" /\ Result # None) =>
              /\ GetSpan(Result[1]) = GetSpan(arg)
              /\ arg.type = "ExpressionStatement" =>
                    GetSpan(Result[1].expression) = GetSpan(Strip(arg.expression))
              /\ arg.type \in BodyStatements =>
                    GetSpan(Result[1].body) = GetSpan(arg.body)
              /\ arg.type = "IfStatement" =>
                    /\ GetSpan(Result[1].test) = GetSpan(arg.test)
                    /\ GetSpan(Result[1].consequent) = GetSpan(arg.consequent)
              /\ arg.type = "BlockStatement" =>
                    SameSpans(Survivors(arg.body), Result[1].body)
        /\ rule = "lower_statement_or_empty" => GetSpan(Result) = GetSpan(arg)
        /\ (rule = "lower_expression" /\ arg.type \notin WrapperKinds) =>
              /\ GetSpan(Result) = GetSpan(arg)
              /\ OperandSpans(arg, Result)
        /\ (rule = "lower_assignment_target"
                /\ arg.target.type \notin TargetWrapperKinds) =>
              GetSpan(Result) = GetSpan(arg)
        /\ (rule = "lower_simple_assignment_target"
                /\ arg.type \notin TargetWrapperKinds) =>
              GetSpan(Result) = GetSpan(arg)
        /\ rule = "lower_binding_pattern" =>
              /\ Result.span = arg.span
              /\ arg.type = "ArrayPattern" =>
                    \A i \in 1..Len(arg.elements) :
                        SameSpans(arg.elements[i], Result.elements[i])
              /\ arg.type = "RestElement" => Result.argument.span = arg.argument.span

\* A program with a directive, an erased statement and x; has been lowered.
C7_Witness ==
    /\ Returned /\ rule = "build"
    /\ arg.directives # <<>>
    /\ arg.body = <<EnumStmt, ExprStmt(X)>>
    /\ GetSpan(Result.body[1].expression) = X.span

---------------------------------------------------------------------------
(* C8 *)

IsHole(slot) == slot = None

IsElision(elem) == elem.type = "Elision"

\* C8: the elements of an array binding pattern, of an array assignment
\* target and of an array expression come out as many as they went in, and
\* slot i is absent (an elision) in the output exactly when slot i is absent
\* (an elision) in the input.
C8_HolesKept ==
    Returned =>
        /\ (rule = "lower_binding_pattern" /\ arg.type = "ArrayPattern") =>
              /\ Len(Result.elements) = Len(arg.elements)
              /\ \A i \in 1..Len(arg.elements) :
                    /\ IsHole(Result.elements[i]) <=> IsHole(arg.elements[i])
                    /\ ~IsHole(arg.elements[i]) =>
                          Result.elements[i][1].type = arg.elements[i][1].type
        /\ (rule = "lower_assignment_target"
                /\ arg.target.type = "ArrayAssignmentTarget") =>
              /\ Len(Result.target.elements) = Len(arg.target.elements)
              /\ \A i \in 1..Len(arg.target.elements) :
                    /\ IsHole(Result.target.elements[i])
                          <=> IsHole(arg.target.elements[i])
                    /\ ~IsHole(arg.target.elements[i]) =>
                          Result.target.elements[i][1].type
                              = arg.target.elements[i][1].type
        /\ (rule = "lower_expression" /\ arg.type = "ArrayExpression") =>
              /\ Len(Result.elements) = Len(arg.elements)
              /\ \A i \in 1..Len(arg.elements) :
                    /\ IsElision(Result.elements[i]) <=> IsElision(arg.elements[i])
                    /\ Result.elements[i].type = arg.elements[i].type

\* [x, , x = 1] as a binding pattern has been lowered.
C8_Witness ==
    /\ Returned /\ rule = "lower_binding_pattern"
    /\ arg.type = "ArrayPattern" /\ Len(arg.elements) = 3
    /\ ~IsHole(arg.elements[1]) /\ IsHole(arg.elements[2]) /\ ~IsHole(arg.elements[3])
    /\ IsHole(Result.elements[2])

---------------------------------------------------------------------------
(* C9 *)

\* table sends op, one of ops, to the operator of the same name, and no
\* other operator of ops to that one.
SameName(table(_), ops, op) ==
    /\ op \in ops
    /\ table(op) \in ops
    /\ table(op) = op
    /\ \A other \in ops : table(other) = table(op) => other = op

\* C9: the binary, logical, unary, update and assignment operators are each
\* mapped, every one of them, to the output operator of the same name, no
\* two to the same one; the lowered expression carries that operator.
C9_OperatorsKept ==
    (Returned /\ rule = "lower_expression") =>
        /\ arg.type = "BinaryExpression" =>
              /\ SameName(BinaryOperator, BinaryOperators, arg.operator)
              /\ Result.type = arg.type /\ Result.operator = arg.operator
        /\ arg.type = "LogicalExpression" =>
              /\ SameName(LogicalOperator, LogicalOperators, arg.operator)
              /\ Result.type = arg.type /\ Result.operator = arg.operator
        /\ arg.type = "UnaryExpression" =>
              /\ SameName(UnaryOperator, UnaryOperators, arg.operator)
              /\ Result.type = arg.type /\ Result.operator = arg.operator
        /\ arg.type = "UpdateExpression" =>
              /\ SameName(UpdateOperator, UpdateOperators, arg.operator)
              /\ Result.type = arg.type /\ Result.operator = arg.operator
        /\ arg.type = "AssignmentExpression" =>
              /\ SameName(AssignmentOperator, AssignmentOperators, arg.operator)
              /\ Result.type = arg.type /\ Result.operator = arg.operator

\* x >>> 1 has been lowered.
C9_Witness ==
    /\ Returned /\ rule = "lower_expression"
    /\ arg.type = "BinaryExpression" /\ arg.operator = "ShiftRightZeroFill"
    /\ Result.operator = "ShiftRightZeroFill"

---------------------------------------------------------------------------
(* C10 *)

\* A TS wrapper in simple-assignment-target position around an expression
\* that is neither an identifier nor a member expression.
BadTarget(t) ==
    /\ t.type \in TargetWrapperKinds
    /\ t.expression.type \notin {"Identifier", "MemberExpression"}

HasBadStmt(stmts) == \E i \in 1..Len(stmts) : stmts[i] = BadStmt

\* The rule has run on an input that holds such a target where it is lowered.
RanOnBadTarget ==
    /\ pc # "call"
    /\ \/ rule = "lower_simple_assignment_target" /\ BadTarget(arg)
       \/ /\ rule = "lower_assignment_target"
          /\ arg.type = "SimpleAssignmentTarget" /\ BadTarget(arg.target)
       \/ /\ rule = "lower_expression"
          /\ arg.type = "UpdateExpression" /\ BadTarget(arg.argument)
       \/ /\ rule = "lower_expression"
          /\ arg.type = "AssignmentExpression"
          /\ arg.left.type = "SimpleAssignmentTarget" /\ BadTarget(arg.left.target)
       \/ rule = "lower_statements" /\ HasBadStmt(arg)
       \/ rule = "build" /\ HasBadStmt(arg.body)

---------------------------------------------------------------------------
(* C11 *)

\* An assignment-target wrapper around neither an identifier nor a member
\* expression sits in the statement, where the pass lowers it or not.
RECURSIVE HoldsBadTarget(_)
HoldsBadTarget(node) ==
    CASE node.type = "ExpressionStatement" -> HoldsBadTarget(node.expression)
      [] node.type = "UpdateExpression" -> BadTarget(node.argument)
      [] node.type \in WrapperKinds -> HoldsBadTarget(node.expression)
      [] IsJSX(node) -> \E i \in 1..Len(node.children) : HoldsBadTarget(node.children[i])
      [] node.type = "IfStatement" ->
            \/ HoldsBadTarget(node.consequent)
            \/ node.alternate # None /\ HoldsBadTarget(node.alternate[1])
      [] node.type = "WhileStatement" -> HoldsBadTarget(node.body)
      [] OTHER -> FALSE

\* The statement holds something the pass erases, passes through or replaces.
IsRich(stmt) == stmt \in RichStmts \ {BadStmt}

\* C11: erasure is never an error. On a program in which every
\* assignment-target wrapper holds an identifier or a member expression,
\* build ends normally and returns a Program, however many erasable
\* declarations, class members and module declarations, passthrough wrappers
\* and JSX elements the program holds and wherever they stand.
C11_ErasureIsNoError ==
    (rule = "build" /\ pc # "call"
        /\ \A i \in 1..Len(arg.body) : ~HoldsBadTarget(arg.body[i])) =>
        /\ Returned
        /\ Result.type = "Program"
        /\ Result.span = arg.span
        /\ Len(Result.body) <= Len(arg.body)

\* A program of a class with erased members and an if statement with erased
\* branches has been built.
C11_Witness ==
    /\ Returned /\ rule = "build"
    /\ Len(arg.body) = 2
    /\ arg.body[1].type = "Declaration" /\ arg.body[1].decl.type = "ClassDeclaration"
    /\ arg.body[2] = IfStmt(EnumStmt, Some(EnumStmt))
    /\ Len(Result.body) = 2

---------------------------------------------------------------------------
(* C12 *)

IsDefaultExport(stmt) ==
    stmt.type = "ModuleDeclaration" /\ stmt.decl.type = "ExportDefaultDeclaration"

LoweredDefaults == {"Expression", "FunctionDeclaration", "ClassDeclaration"}

ErasedDefaults == {"TSEnumDeclaration", "TSInterfaceDeclaration"}

\* C12: export default of an expression, a function or a class is lowered
\* to one default-export statement of the same sub-kind; export default of
\* a TS enum or a TS interface is lowered to no statement: the whole
\* statement is dropped.
C12_DefaultExports ==
    /\ (Returned /\ rule = "lower_statement" /\ IsDefaultExport(arg)
            /\ arg.decl.declaration.type \in LoweredDefaults) =>
          /\ Len(Result) = 1
          /\ IsDefaultExport(Result[1])
          /\ Result[1].decl.span = arg.decl.span
          /\ Result[1].decl.declaration.type = arg.decl.declaration.type
          /\ Result[1].decl.exported.ident.name = arg.decl.exported.ident.name
    /\ (rule = "lower_statement" /\ pc # "call" /\ IsDefaultExport(arg)
            /\ arg.decl.declaration.type \in ErasedDefaults) =>
          /\ Returned
          /\ Result = None
    /\ (Returned /\ rule = "build") =>
          Len(SelectSeq(Result.body, IsDefaultExport))
              = Len(SelectSeq(arg.body,
                              LAMBDA stmt : /\ IsDefaultExport(stmt)
                                            /\ stmt.decl.declaration.type
                                                  \in LoweredDefaults))

\* export default class {} has been lowered.
C12_Witness ==
    /\ Returned /\ rule = "lower_statement" /\ IsDefaultExport(arg)
    /\ arg.decl.declaration.type = "ClassDeclaration"
    /\ Result[1].decl.declaration.type = "ClassDeclaration"

---------------------------------------------------------------------------
(* C13 *)

IsTSExport(stmt) ==
    /\ stmt.type = "ModuleDeclaration"
    /\ stmt.decl.type \in {"TSExportAssignment", "TSNamespaceExportDeclaration"}

\* out has no element for a TS export form of stmts: none at its span, no
\* empty statement that stmts did not hold, and nothing at all when stmts
\* holds nothing else.
NoReplacement(stmts, out) ==
    /\ \A j \in 1..Len(out) :
          /\ ~IsTSExport(out[j])
          /\ \A i \in 1..Len(stmts) :
                IsTSExport(stmts[i]) => GetSpan(out[j]) # GetSpan(stmts[i])
          /\ out[j].type = "EmptyStatement" =>
                \E i \in 1..Len(stmts) : stmts[i].type = "EmptyStatement"
    /\ Len(out) <= Len(SelectSeq(stmts, LAMBDA stmt : ~IsTSExport(stmt)))

\* C13: lower_statement returns absent for every TS export assignment and
\* every TS namespace export declaration; as an element of a statement list
\* such a statement leaves no element in the output list, no empty statement
\* and no other replacement.
C13_TSExportsLeaveNothing ==
    /\ (rule = "lower_statement" /\ pc # "call" /\ IsTSExport(arg)) =>
          /\ Returned
          /\ Result = None
    /\ (Returned /\ rule = "lower_statements") => NoReplacement(arg, Result)
    /\ (Returned /\ rule = "build") => NoReplacement(arg.body, Result.body)
    /\ (Returned /\ rule = "lower_statement" /\ arg.type = "BlockStatement") =>
          NoReplacement(arg.body, Result[1].body)

\* A list of export = x between two statements that stay has been lowered.
C13_Witness ==
    /\ Returned /\ rule = "lower_statements"
    /\ Len(arg) = 3 /\ IsTSExport(arg[2])
    /\ arg[1] = DebuggerStmt /\ arg[3] = ExprStmt(X)
    /\ Len(Result) = 2

---------------------------------------------------------------------------
(* C14 *)

ErasedMembers ==
    {"TSAbstractMethodDefinition", "TSAbstractPropertyDefinition",
     "TSIndexSignature"}

LoweredMembers ==
    {"StaticBlock", "MethodDefinition", "PropertyDefinition", "AccessorProperty"}

KeptMembers(elements) ==
    SelectSeq(elements, LAMBDA elem : elem.type \notin ErasedMembers)

IsClassStmt(stmt) == stmt.type = "Declaration" /\ stmt.decl.type = "ClassDeclaration"

\* C14: the members of a lowered class body are the members of the input
\* body without the abstract method definitions, the abstract property
\* definitions and the index signatures; every other member (static block,
\* method, property, accessor property) leaves one member of its kind, in
\* the same relative order.
C14_ClassMembers ==
    (Returned /\ rule = "lower_statement" /\ IsClassStmt(arg)) =>
        LET elements == arg.decl.class.body.body
            kept == KeptMembers(elements)
            out == Result[1].decl.class.body.body
        IN  /\ Len(out) = Len(kept)
            /\ \A i \in 1..Len(elements) :
                  elements[i].type \in ErasedMembers \cup LoweredMembers
            /\ \A i \in 1..Len(kept) :
                  /\ out[i].type = kept[i].type
                  /\ out[i].type \in LoweredMembers
                  /\ out[i].span = kept[i].span

\* class { abstract m(); static {} [k: T]: U } and the like: a body of an
\* erased member, a lowered one and an erased one has been lowered.
C14_Witness ==
    /\ Returned /\ rule = "lower_statement" /\ IsClassStmt(arg)
    /\ Len(arg.decl.class.body.body) = 3
    /\ arg.decl.class.body.body[1].type \in ErasedMembers
    /\ arg.decl.class.body.body[2].type = "MethodDefinition"
    /\ arg.decl.class.body.body[3].type = "PropertyDefinition"
    /\ Len(Result[1].decl.class.body.body) = 2

---------------------------------------------------------------------------
(* C15 *)

\* An Option comes out present exactly when it went in present.
SamePresence(in, out) == Len(out) = Len(in) /\ Len(in) \in {0, 1}

MemberValues(elements, out) ==
    \A i \in 1..Len(elements) :
        elements[i].type \in {"PropertyDefinition", "AccessorProperty"} =>
            SamePresence(elements[i].value, out[i].value)

ClassPresence(class, out) ==
    /\ SamePresence(class.id, out.id)
    /\ SamePresence(class.super_class, out.super_class)
    /\ KeptMembers(class.body.body) = class.body.body =>
          MemberValues(class.body.body, out.body.body)

StatementPresence(stmt, out) ==
    /\ stmt.type = "ForStatement" =>
          /\ SamePresence(stmt.init, out.init)
          /\ SamePresence(stmt.test, out.test)
          /\ SamePresence(stmt.update, out.update)
    /\ stmt.type = "ReturnStatement" => SamePresence(stmt.argument, out.argument)
    /\ stmt.type \in {"BreakStatement", "ContinueStatement"} =>
          SamePresence(stmt.label, out.label)
    /\ stmt.type = "TryStatement" =>
          /\ SamePresence(stmt.handler, out.handler)
          /\ SamePresence(stmt.finalizer, out.finalizer)
          /\ stmt.handler # None =>
                SamePresence(stmt.handler[1].param, out.handler[1].param)
    /\ IsClassStmt(stmt) => ClassPresence(stmt.decl.class, out.decl.class)
    /\ (stmt.type = "Declaration" /\ stmt.decl.type = "FunctionDeclaration") =>
          /\ SamePresence(stmt.decl.func.id, out.decl.func.id)
          /\ SamePresence(stmt.decl.func.body, out.decl.func.body)
    /\ (stmt.type = "Declaration" /\ stmt.decl.type = "VariableDeclaration") =>
          \A i \in 1..Len(stmt.decl.declarations) :
              SamePresence(stmt.decl.declarations[i].init,
                           out.decl.declarations[i].init)
    /\ (stmt.type = "ModuleDeclaration" /\ stmt.decl.type = "ExportAllDeclaration") =>
          /\ SamePresence(stmt.decl.exported, out.decl.exported)
          /\ SamePresence(stmt.decl.assertions, out.decl.assertions)
    /\ (stmt.type = "ModuleDeclaration" /\ stmt.decl.type = "ImportDeclaration") =>
          SamePresence(stmt.decl.assertions, out.decl.assertions)
    /\ (stmt.type = "ModuleDeclaration" /\ stmt.decl.type = "ExportNamedDeclaration") =>
          SamePresence(stmt.decl.source, out.decl.source)

\* C15: each of these optional fields comes out present exactly when it
\* went in present: for-statement init, test and update; return and yield
\* argument; break and continue label; try handler and finalizer; catch
\* parameter; class id and superclass; function id and body; declarator
\* initializer; property-definition and accessor value; export-all exported
\* name; named-export source; import and export attribute list.
C15_OptionalFieldsKept ==
    Returned =>
        /\ (rule = "lower_statement" /\ Result # None) =>
              StatementPresence(arg, Result[1])
        /\ (rule = "lower_expression" /\ arg.type = "YieldExpression") =>
              SamePresence(arg.argument, Result.argument)
        /\ (rule = "lower_expression" /\ arg.type = "ClassExpression") =>
              ClassPresence(arg.class, Result.class)

\* for (;;) ; with neither init nor test nor update has been lowered.
C15_Witness ==
    /\ Returned /\ rule = "lower_statement" /\ arg.type = "ForStatement"
    /\ arg.init = None /\ arg.test = None /\ arg.update = None
    /\ Result[1].test = None

---------------------------------------------------------------------------
(* C16 *)

PlainStatements ==
    {"BlockStatement", "BreakStatement", "ContinueStatement",
     "DebuggerStatement", "DoWhileStatement", "EmptyStatement",
     "ExpressionStatement", "ForStatement", "ForInStatement", "ForOfStatement",
     "IfStatement", "LabeledStatement", "ReturnStatement", "SwitchStatement",
     "ThrowStatement", "TryStatement", "WhileStatement", "WithStatement"}

\* C16: lower_statement returns one statement of the corresponding variant
\* for every statement that is neither a module declaration nor a
\* declaration; it returns absent only for those two.
C16_OneStatementEach ==
    (Returned /\ rule = "lower_statement") =>
        /\ arg.type \in PlainStatements \cup {"ModuleDeclaration", "Declaration"}
        /\ arg.type \in PlainStatements =>
              /\ Len(Result) = 1
              /\ Result[1].type = arg.type
              /\ GetSpan(Result[1]) = GetSpan(arg)
        /\ Result = None => arg.type \in {"ModuleDeclaration", "Declaration"}
        /\ Len(Result) <= 1

\* try {} catch {} finally {} has been lowered to a try statement.
C16_Witness ==
    /\ Returned /\ rule = "lower_statement" /\ arg.type = "TryStatement"
    /\ arg.handler # None /\ arg.finalizer # None
    /\ Result[1].type = "TryStatement"

---------------------------------------------------------------------------
(* The nodes of a tree, stated apart from the rules *)

\* The children of a node, in the order of the source text.  An enum
\* variant around a node (it has no span of its own) has that node as its
\* one child.
Parts(node) ==
    CASE node.type = "Program" -> node.directives \o node.body
      [] node.type = "Directive" -> <<node.expression>>
      [] node.type \in {"BlockStatement", "StaticBlock", "ClassBody"} -> node.body
      [] node.type = "ExpressionStatement" -> <<node.expression>>
      [] node.type \in {"Declaration", "ModuleDeclaration"} -> <<node.decl>>
      [] node.type = "TryStatement" ->
            <<node.block>> \o node.handler \o node.finalizer
      [] node.type = "CatchClause" -> node.param \o <<node.body>>
      [] node.type = "IfStatement" ->
            <<node.test, node.consequent>> \o node.alternate
      [] node.type = "ForStatement" ->
            node.init \o node.test \o node.update \o <<node.body>>
      [] node.type = "DoWhileStatement" -> <<node.body, node.test>>
      [] node.type = "WhileStatement" -> <<node.test, node.body>>
      [] node.type = "ReturnStatement" -> node.argument
      [] node.type = "VariableDeclaration" ->
            IF "decl" \in DOMAIN node THEN <<node.decl>> ELSE node.declarations
      [] node.type = "VariableDeclarator" -> <<node.id>> \o node.init
      [] node.type \in {"FunctionDeclaration", "FunctionExpression"} ->
            IF "func" \in DOMAIN node THEN <<node.func>>
            ELSE node.id \o <<node.params>> \o node.body
      [] node.type = "FormalParameters" -> node.items
      [] node.type = "FormalParameter" -> node.decorators \o <<node.pattern>>
      [] node.type = "FunctionBody" -> node.directives \o node.statements
      [] node.type = "ClassDeclaration" ->
            IF "class" \in DOMAIN node THEN <<node.class>>
            ELSE node.decorators \o node.id \o node.super_class \o <<node.body>>
      [] node.type = "MethodDefinition" ->
            node.decorators \o <<node.key, node.value>>
      [] node.type = "PropertyDefinition" ->
            node.decorators \o <<node.key>> \o node.value
      [] node.type = "Decorator" -> <<node.expression>>
      [] node.type = "Identifier" ->
            IF "ident" \in DOMAIN node THEN <<node.ident>> ELSE <<>>
      [] node.type = "ChainExpression" -> <<node.expression>>
      [] node.type \in {"MemberExpression", "Expression"} -> <<node.expr>>
      [] node.type = "StaticMemberExpression" -> <<node.object, node.property>>
      [] node.type = "CallExpression" -> <<node.callee>> \o node.arguments
      [] node.type = "AssignmentExpression" -> <<node.left, node.right>>
      [] node.type = "SimpleAssignmentTarget" -> <<node.target>>
      [] node.type = "BinaryExpression" -> <<node.left, node.right>>
      [] node.type \in {"ParenthesizedExpression", "TSAsExpression"} ->
            <<node.expression>>
      [] node.type \in {"JSXElement", "JSXFragment"} -> node.children
      [] node.type = "ImportDeclaration" ->
            node.specifiers \o <<node.source>> \o Flatten(node.assertions)
      [] node.type = "ImportDefaultSpecifier" -> <<node.local>>
      [] node.type = "ExportDefaultDeclaration" ->
            <<node.exported, node.declaration>>
      [] node.type \in {"IdentifierName", "BindingIdentifier", "NumberLiteral",
                        "StringLiteral", "DebuggerStatement",
                        "AssignmentTargetIdentifier", "TSEnumDeclaration",
                        "TSInterfaceDeclaration", "TSIndexSignature"} -> <<>>

\* A construct the pass erases or replaces by a placeholder as a whole.
Sealed(node) ==
    \/ node.type \in {"JSXElement", "JSXFragment"}
    \/ /\ node.type = "ExportDefaultDeclaration"
       /\ node.declaration.type \in {"TSEnumDeclaration", "TSInterfaceDeclaration"}

\* The nodes of todo and the nodes below them, without what lies inside an
\* erased or replaced construct.
RECURSIVE NodesBelow(_)
NodesBelow(todo) ==
    IF todo = <<>> THEN <<>>
    ELSE <<Head(todo)>>
         \o NodesBelow((IF Sealed(Head(todo)) THEN <<>> ELSE Parts(Head(todo)))
                       \o Tail(todo))

\* The rules entered during the build of program, in the order of entry.
BuildTrace(program) == Trace(<<Visit("lower_program", program)>>)

\* The rule hands the statement list as a whole, not a node.
OnList(visit) == visit.rule = "lower_statements"

\* The rule of the visit hands its node on to another rule.
HandsOn(visit) ==
    LET made == calls(visit.rule, visit.node)
    IN  \E k \in 1..Len(made) : ~OnList(made[k]) /\ made[k].node = visit.node

---------------------------------------------------------------------------
(* C17 *)

---------------------------------------------------------------------------
(* C18 *)

\* The calls a rule makes on the children of its node follow the order of
\* the children in the source text.
InSourceOrder(visit) ==
    LET made == calls(visit.rule, visit.node)
        parts == IF OnList(visit) THEN visit.node ELSE Parts(visit.node)
        Places(n) == {k \in 1..Len(parts) : parts[k] = n}
    IN  \A a, b \in 1..Len(made) :
            (a < b /\ ~OnList(made[a]) /\ ~OnList(made[b])) =>
                \A ka \in Places(made[a].node), kb \in Places(made[b].node) :
                    ka < kb

\* C18: for every composite node the lowering calls on its children are
\* made in the left-to-right order of the source text: the parameter of a
\* catch clause before its body, the decorators of a class or parameter
\* before the class body or the pattern.
C18_ChildrenInSourceOrder ==
    (rule = "build" /\ Returned /\ arg \in PlacedPrograms) =>
        LET trace == BuildTrace(arg)
        IN  \A i \in 1..Len(trace) : InSourceOrder(trace[i])

\* The rules whose calls leave the order of the source text.
OutOfOrderRules ==
    {"lower_catch_clause", "lower_class", "lower_formal_parameter",
     "lower_method_definition", "lower_property_definition"}

\* Every other rule keeps the order of the source text.
C18_OrderElsewhere ==
    (rule = "build" /\ Returned /\ arg \in PlacedPrograms) =>
        LET trace == BuildTrace(arg)
        IN  \A i \in 1..Len(trace) :
                trace[i].rule \notin OutOfOrderRules => InSourceOrder(trace[i])

\* try {} catch (e) {} has been built: the body of the catch clause was
\* lowered before its parameter.
C18_BodyBeforeParam ==
    /\ rule = "build" /\ Returned /\ arg \in PlacedPrograms
    /\ arg.body[1].type = "TryStatement"
    /\ arg.body[1].handler[1].param # None
    /\ calls("lower_catch_clause", arg.body[1].handler[1])
          = <<Visit("lower_block", arg.body[1].handler[1].body),
              Visit("lower_binding_pattern", arg.body[1].handler[1].param[1])>>

---------------------------------------------------------------------------
(* C19 *)

\* What lowering the link inside the chain gives: the one call that
\* lower_chain_expression makes.
ChainLink(chain) ==
    IF chain.expression.type = "CallExpression"
    THEN self("lower_call_expression", chain.expression)
    ELSE self("lower_member_expression", chain.expression.expr)

\* C19: a chain around a call lowers to a chain whose element is the call
\* alternative, a chain around a member expression to one whose element is
\* the member alternative, of the same member kind and with the same optional
\* flag; the lowered link always has the alternative the chain expects, so
\* the branch that aborts is never taken (a chain ends abnormally only when
\* the lowering of its link already has).
C19_ChainKeepsItsLink ==
    (rule = "lower_expression" /\ pc # "call" /\ arg.type = "ChainExpression") =>
        LET link == ChainLink(arg)
        IN  /\ link.type \in {arg.expression.type, "Panic"}
            /\ Returned <=> link # Panic
            /\ Returned =>
                  /\ Result.type = "ChainExpression"
                  /\ Result.span = arg.span
                  /\ Result.expression = link
                  /\ Result.expression.type = arg.expression.type
                  /\ arg.expression.type = "CallExpression" =>
                        Result.expression.optional = arg.expression.optional
                  /\ arg.expression.type = "MemberExpression" =>
                        /\ Result.expression.expr.type = arg.expression.expr.type
                        /\ Result.expression.expr.optional
                              = arg.expression.expr.optional

\* x?.#f has been lowered to a chain around an optional private field.
C19_Witness ==
    /\ Returned /\ rule = "lower_expression" /\ arg.type = "ChainExpression"
    /\ arg.expression.type = "MemberExpression"
    /\ arg.expression.expr.type = "PrivateFieldExpression"
    /\ arg.expression.expr.optional
    /\ Result.expression.expr.type = "PrivateFieldExpression"
    /\ Result.expression.expr.optional

---------------------------------------------------------------------------
(* C20 *)

C20_WitnessAbnormal ==
    /\ rule = "build" /\ pc = "panicked" /\ Len(prev) = 1
    /\ prev[1].pc = "panicked"

---------------------------------------------------------------------------
(* C21 *)

\* Every node of todo and every node below, the erased and replaced ones
\* and what lies inside them too.
RECURSIVE NodesIn(_)
NodesIn(todo) ==
    IF todo = <<>> THEN <<>>
    ELSE <<Head(todo)>> \o NodesIn(Parts(Head(todo)) \o Tail(todo))

\* The number of nodes of the tree, an enum variant around a node counted
\* with the node.
NodeCount(tree) ==
    LET nodes == NodesIn(<<tree>>)
    IN  Cardinality({k \in 1..Len(nodes) : "span" \in DOMAIN nodes[k]})

LinearWork ==
    (rule = "build" /\ pc # "call" /\ arg \in PlacedPrograms) =>
        /\ pc \in {"returned", "panicked"}
        /\ Len(BuildTrace(arg)) <= 3 * NodeCount(arg)

---------------------------------------------------------------------------
(* C22 *)

FunctionKept(func, out) ==
    /\ out.type = func.type
    /\ out.expression = func.expression
    /\ out.generator = func.generator
    /\ out.async = func.async
    /\ SamePresence(func.id, out.id)
    /\ SamePresence(func.body, out.body)

\* C22: a lowered function (declaration, expression or ambient declare)
\* has the type tag of the same name, the same expression, generator and
\* async flags, a name exactly when the input has one and no body exactly
\* when the input has none; an ambient function is not erased.  An arrow
\* function keeps its three flags and its body.
C22_FunctionsKept ==
    Returned =>
        /\ (rule = "lower_statement" /\ arg.type = "Declaration"
                /\ arg.decl.type = "FunctionDeclaration") =>
              /\ Result # None
              /\ Result[1].type = "Declaration"
              /\ Result[1].decl.type = "FunctionDeclaration"
              /\ FunctionKept(arg.decl.func, Result[1].decl.func)
        /\ (rule = "lower_expression" /\ arg.type = "FunctionExpression") =>
              /\ Result.type = "FunctionExpression"
              /\ FunctionKept(arg.func, Result.func)
        /\ (rule = "lower_expression" /\ arg.type = "ArrowFunctionExpression") =>
              /\ Result.type = "ArrowFunctionExpression"
              /\ Result.expression = arg.expression
              /\ Result.generator = arg.generator
              /\ Result.async = arg.async
              /\ Result.body.type = "FunctionBody"

\* declare async function* (); without name and body has been lowered, and
\* is still there.
C22_Witness ==
    /\ Returned /\ rule = "lower_statement" /\ arg.type = "Declaration"
    /\ arg.decl.type = "FunctionDeclaration"
    /\ arg.decl.func.type = "TSDeclareFunction"
    /\ arg.decl.func.body = None /\ arg.decl.func.id = None
    /\ arg.decl.func.generator /\ arg.decl.func.async
    /\ ~arg.decl.func.expression
    /\ Result # None
    /\ Result[1].decl.func.type = "TSDeclareFunction"
    /\ Result[1].decl.func.body = None

---------------------------------------------------------------------------
(* C23 *)

DeclaratorKept(decl, out) ==
    /\ out.type = "VariableDeclarator"
    /\ out.kind = decl.kind
    /\ out.id = self("lower_binding_pattern", decl.id)
    /\ out.id.type = decl.id.type
    /\ SamePresence(decl.init, out.init)
    /\ out.definite = decl.definite

\* C23: a lowered variable declaration has the same kind and as many
\* declarators in the same order; each output declarator has the kind of
\* its own input declarator, the lowered binding pattern, an initializer
\* exactly when the input has one, and the same definite flag.
C23_VariableDeclarationsKept ==
    (Returned /\ rule = "lower_statement" /\ arg.type = "Declaration"
        /\ arg.decl.type = "VariableDeclaration") =>
        /\ Result # None
        /\ Result[1].type = "Declaration"
        /\ Result[1].decl.type = "VariableDeclaration"
        /\ Result[1].decl.kind = arg.decl.kind
        /\ Len(Result[1].decl.declarations) = Len(arg.decl.declarations)
        /\ \A i \in 1..Len(arg.decl.declarations) :
              DeclaratorKept(arg.decl.declarations[i],
                             Result[1].decl.declarations[i])

\* var {} = x, b! = 1; has been lowered: a const declarator and a let
\* declarator in a var declaration.
C23_Witness ==
    /\ Returned /\ rule = "lower_statement" /\ arg.type = "Declaration"
    /\ arg.decl.type = "VariableDeclaration" /\ arg.decl.kind = "Var"
    /\ Len(arg.decl.declarations) = 2
    /\ arg.decl.declarations[1].kind = "Const"
    /\ arg.decl.declarations[1].id.type = "ObjectPattern"
    /\ arg.decl.declarations[2].kind = "Let"
    /\ arg.decl.declarations[2].definite
    /\ Result[1].decl.declarations[2].definite
    /\ Result[1].decl.declarations[1].init # None

---------------------------------------------------------------------------
(* C24 *)

SpecifiersKept(specifiers, out) ==
    /\ Len(out) = Len(specifiers)
    /\ \A i \in 1..Len(specifiers) :
          /\ out[i].type = specifiers[i].type
          /\ out[i].span = specifiers[i].span

\* C24: every import declaration and every export-all declaration lowers
\* to exactly one statement, of kind Value and of kind Type alike: the type
\* ones are not erased and come out with kind Type.  The specifiers of an
\* import come out as many, in the same order, each of its own kind (named,
\* default, namespace).
C24_ImportsAndExportAllKept ==
    (Returned /\ rule = "lower_statement" /\ arg.type = "ModuleDeclaration"
        /\ arg.decl.type \in {"ImportDeclaration", "ExportAllDeclaration"}) =>
        /\ Len(Result) = 1
        /\ Result[1].type = "ModuleDeclaration"
        /\ Result[1].decl.type = arg.decl.type
        /\ arg.decl.type = "ImportDeclaration" =>
              /\ Result[1].decl.import_kind = arg.decl.import_kind
              /\ SpecifiersKept(arg.decl.specifiers, Result[1].decl.specifiers)
        /\ arg.decl.type = "ExportAllDeclaration" =>
              Result[1].decl.export_kind = arg.decl.export_kind

\* import type x, * as x, {k as x} from "m" has been lowered and is a type
\* import still.
C24_Witness ==
    /\ Returned /\ rule = "lower_statement" /\ arg.type = "ModuleDeclaration"
    /\ arg.decl.type = "ImportDeclaration" /\ arg.decl.import_kind = "Type"
    /\ Len(arg.decl.specifiers) = 3
    /\ arg.decl.specifiers[1].type = "ImportDefaultSpecifier"
    /\ arg.decl.specifiers[2].type = "ImportNamespaceSpecifier"
    /\ arg.decl.specifiers[3].type = "ImportSpecifier"
    /\ Result[1].decl.import_kind = "Type"
    /\ Result[1].decl.specifiers[3].type = "ImportSpecifier"

\* export type * from "m" has been lowered and is a type export still.
C24_WitnessExportAll ==
    /\ Returned /\ rule = "lower_statement" /\ arg.type = "ModuleDeclaration"
    /\ arg.decl.type = "ExportAllDeclaration" /\ arg.decl.export_kind = "Type"
    /\ Result[1].decl.export_kind = "Type"

---------------------------------------------------------------------------
(* C25, C26 *)

LoweredDeclarations ==
    {"VariableDeclaration", "FunctionDeclaration", "ClassDeclaration"}

ErasedDeclarations ==
    {"TSEnumDeclaration", "TSImportEqualsDeclaration", "TSInterfaceDeclaration",
     "TSTypeAliasDeclaration", "TSModuleDeclaration"}

\* C25: every named-export declaration lowers to exactly one statement;
\* its declaration field is present exactly when the input has an inner
\* declaration that is a variable, function or class declaration.  The
\* export of an enum survives with no declaration in it.
C25_NamedExportsKept ==
    (Returned /\ rule = "lower_statement" /\ arg.type = "ModuleDeclaration"
        /\ arg.decl.type = "ExportNamedDeclaration") =>
        /\ Len(Result) = 1
        /\ Result[1].type = "ModuleDeclaration"
        /\ Result[1].decl.type = "ExportNamedDeclaration"
        /\ Len(Result[1].decl.declaration) <= 1
        /\ Result[1].decl.declaration # None <=>
              /\ arg.decl.declaration # None
              /\ arg.decl.declaration[1].type \in LoweredDeclarations
        /\ Result[1].decl.declaration # None =>
              Result[1].decl.declaration[1].type = arg.decl.declaration[1].type

\* export enum E {} has been lowered: the export is there, with no
\* declaration in it.
C25_Witness ==
    /\ Returned /\ rule = "lower_statement" /\ arg.type = "ModuleDeclaration"
    /\ arg.decl.type = "ExportNamedDeclaration"
    /\ arg.decl.declaration # None
    /\ arg.decl.declaration[1].type = "TSEnumDeclaration"
    /\ Len(Result) = 1
    /\ Result[1].decl.declaration = None

\* export class x {} has been lowered with its class in it.
C25_WitnessKept ==
    /\ Returned /\ rule = "lower_statement" /\ arg.type = "ModuleDeclaration"
    /\ arg.decl.type = "ExportNamedDeclaration"
    /\ arg.decl.declaration # None
    /\ arg.decl.declaration[1].type = "ClassDeclaration"
    /\ Result[1].decl.declaration[1].type = "ClassDeclaration"

\* C26: lower_declaration returns a declaration exactly for the variable,
\* function and class declarations, and absent for every other variant:
\* enum, import-equals, interface, type alias and module declarations.
C26_ThreeDeclarationsKept ==
    (Returned /\ rule = "lower_statement" /\ arg.type = "Declaration") =>
        /\ arg.decl.type \in LoweredDeclarations \cup ErasedDeclarations
        /\ Len(Result) <= 1
        /\ Result # None <=> arg.decl.type \in LoweredDeclarations
        /\ Result # None =>
              /\ Result[1].type = "Declaration"
              /\ Result[1].decl.type = arg.decl.type
        /\ arg.decl.type \in ErasedDeclarations =>
              self("lower_declaration", arg.decl) = None

\* type E = ... has been lowered to nothing.
C26_Witness ==
    /\ Returned /\ rule = "lower_statement" /\ arg.type = "Declaration"
    /\ arg.decl.type = "TSTypeAliasDeclaration"
    /\ Result = None

\* A class declaration has been lowered to a class declaration.
C26_WitnessKept ==
    /\ Returned /\ rule = "lower_statement" /\ arg.type = "Declaration"
    /\ arg.decl.type = "ClassDeclaration"
    /\ Result # None /\ Result[1].decl.type = "ClassDeclaration"

---------------------------------------------------------------------------
(* C27, C28 *)

PassthroughKinds == {"ParenthesizedExpression"} \cup TargetWrapperKinds

\* The expression under every parenthesis and TS wrapper around it.
RECURSIVE Resolved(_)
Resolved(expr) ==
    IF expr.type \in PassthroughKinds THEN Resolved(expr.expression) ELSE expr

\* The assignment target a parser makes of a bare identifier or member
\* expression.
BareTarget(expr) ==
    CASE expr.type = "Identifier" ->
            [type |-> "AssignmentTargetIdentifier", span |-> expr.span,
             name |-> expr.name]
      [] expr.type = "MemberExpression" ->
            [type |-> "MemberAssignmentTarget", expr |-> expr.expr]

RanOnWrappedTarget ==
    /\ rule = "lower_simple_assignment_target" /\ pc # "call"
    /\ arg.type \in TargetWrapperKinds

\* C27: lowering a simple assignment target that is a TS wrapper (as,
\* satisfies, non-null, type assertion) succeeds whenever the expression of
\* the wrapper resolves, through any number of further parentheses and TS
\* wrappers, to an identifier or a member expression, and yields the
\* assignment target of that identifier or member expression.
C27_NestedWrappersResolve ==
    (RanOnWrappedTarget
        /\ Resolved(arg.expression).type \in {"Identifier", "MemberExpression"}) =>
        /\ Returned
        /\ Result = self("lower_simple_assignment_target",
                         BareTarget(Resolved(arg.expression)))

\* (x) as T in target position has been lowered, and the pass has panicked.
C27_NestedWrapperPanics ==
    /\ RanOnWrappedTarget
    /\ arg.type = "TSAsExpression"
    /\ arg.expression.type = "ParenthesizedExpression"
    /\ arg.expression.expression.type = "Identifier"
    /\ pc = "panicked"

\* C28: for a TS wrapper in simple-assignment-target position whose
\* expression is itself an identifier x or a member expression m, the
\* lowered target is the one that lowering the bare target x or m gives: the
\* same variant, name, span and fields, and nothing of the wrapper.
C28_WrapperLeavesNoTrace ==
    (RanOnWrappedTarget
        /\ arg.expression.type \in {"Identifier", "MemberExpression"}) =>
        /\ Returned
        /\ Result = self("lower_simple_assignment_target",
                         BareTarget(arg.expression))
        /\ GetSpan(Result) = GetSpan(arg.expression)
        /\ GetSpan(Result) # arg.span
        /\ arg.expression.type = "Identifier" =>
              /\ Result.type = "AssignmentTargetIdentifier"
              /\ Result.name = arg.expression.name
        /\ arg.expression.type = "MemberExpression" =>
              /\ Result.type = "MemberAssignmentTarget"
              /\ Result.expr.type = arg.expression.expr.type

\* <T>x in target position has been lowered to the target x.
C28_Witness ==
    /\ RanOnWrappedTarget /\ Returned
    /\ arg.type = "TSTypeAssertion"
    /\ arg.expression = X
    /\ Result.type = "AssignmentTargetIdentifier"
    /\ Result.span = X.span

\* x.k! in target position has been lowered to the target x.k.
C28_WitnessMember ==
    /\ RanOnWrappedTarget /\ Returned
    /\ arg.type = "TSNonNullExpression"
    /\ arg.expression.type = "MemberExpression"
    /\ Result.type = "MemberAssignmentTarget"

---------------------------------------------------------------------------
(* C29 *)

\* out has the lowering of items[i] by the rule cb at each place i.
ListKept(items, out, cb) ==
    /\ Len(out) = Len(items)
    /\ \A i \in 1..Len(items) : out[i] = self(cb, items[i])

ExpressionListsKept(expr, out) ==
    /\ expr.type \in {"CallExpression", "NewExpression"} =>
          ListKept(expr.arguments, out.arguments, "lower_argument")
    /\ expr.type = "ImportExpression" =>
          ListKept(expr.arguments, out.arguments, "lower_expression")
    /\ expr.type = "SequenceExpression" =>
          ListKept(expr.expressions, out.expressions, "lower_expression")
    /\ expr.type = "TemplateLiteral" =>
          /\ ListKept(expr.quasis, out.quasis, "lower_template_element")
          /\ ListKept(expr.expressions, out.expressions, "lower_expression")
    /\ expr.type = "ObjectExpression" =>
          ListKept(expr.properties, out.properties, "lower_object_property")

FunctionListsKept(func, out) ==
    /\ ListKept(func.params.items, out.params.items, "lower_formal_parameter")
    /\ \A i \in 1..Len(func.params.items) :
          ListKept(func.params.items[i].decorators,
                   out.params.items[i].decorators, "lower_decorator")
    /\ func.body # None =>
          ListKept(func.body[1].directives, out.body[1].directives,
                   "lower_directive")

ModuleListsKept(decl, out) ==
    /\ decl.type = "ImportDeclaration" =>
          /\ ListKept(decl.specifiers, out.specifiers,
                      "lower_import_declaration_specifier")
          /\ Len(out.assertions) = Len(decl.assertions)
          /\ decl.assertions # None =>
                ListKept(decl.assertions[1], out.assertions[1],
                         "lower_import_attribute")
    /\ decl.type = "ExportNamedDeclaration" =>
          ListKept(decl.specifiers, out.specifiers, "lower_export_specifier")

StatementListsKept(stmt, out) ==
    /\ stmt.type = "SwitchStatement" =>
          ListKept(stmt.cases, out.cases, "lower_switch_case")
    /\ (stmt.type = "Declaration" /\ stmt.decl.type = "VariableDeclaration") =>
          ListKept(stmt.decl.declarations, out.decl.declarations,
                   "lower_variable_declarator")
    /\ (stmt.type = "Declaration" /\ stmt.decl.type = "FunctionDeclaration") =>
          FunctionListsKept(stmt.decl.func, out.decl.func)
    /\ (stmt.type = "Declaration" /\ stmt.decl.type = "ClassDeclaration") =>
          ListKept(stmt.decl.class.decorators, out.decl.class.decorators,
                   "lower_decorator")
    /\ stmt.type = "ModuleDeclaration" => ModuleListsKept(stmt.decl, out.decl)

\* C29: every list that is lowered through lower_vec and holds neither
\* statements nor class members (call and new arguments, sequence
\* expressions, template quasis and expressions, object properties, switch
\* cases, variable declarators, formal parameters, decorators, directives,
\* import and export specifiers and attributes) comes out with the same
\* length, its element i the lowering of the input's element i.
C29_ListsKeepLengthAndOrder ==
    Returned =>
        /\ rule = "lower_expression" => ExpressionListsKept(arg, Result)
        /\ (rule = "lower_statement" /\ Result # None) =>
              StatementListsKept(arg, Result[1])
        /\ rule = "build" =>
              ListKept(arg.directives, Result.directives, "lower_directive")

\* f(x, ...1, x) has been lowered: three arguments, the spread in the
\* middle.
C29_Witness ==
    /\ Returned /\ rule = "lower_expression" /\ arg.type = "CallExpression"
    /\ Len(arg.arguments) = 3
    /\ arg.arguments[2].type = "SpreadElement"
    /\ arg.arguments[3].type = "Expression"
    /\ Len(Result.arguments) = 3
    /\ Result.arguments[2].type = "SpreadElement"

\* A switch of three cases, the default in the middle, has been lowered.
C29_WitnessCases ==
    /\ Returned /\ rule = "lower_statement" /\ arg.type = "SwitchStatement"
    /\ Len(arg.cases) = 3
    /\ arg.cases[1].test # None /\ arg.cases[2].test = None
    /\ Result[1].cases[2].test = None /\ Result[1].cases[1].test # None

---------------------------------------------------------------------------
(* C30 *)

AllErased(stmts) == \A i \in 1..Len(stmts) : Erasable(stmts[i])

AllMembersErased(elements) ==
    \A i \in 1..Len(elements) : elements[i].type \in ErasedMembers

\* A lowered list parent of nothing but erased elements is there, and empty.
ListParentKept(stmt, out) ==
    /\ (stmt.type = "BlockStatement" /\ AllErased(stmt.body)) =>
          out.type = "BlockStatement" /\ out.body = <<>>
    /\ stmt.type = "SwitchStatement" =>
          /\ Len(out.cases) = Len(stmt.cases)
          /\ \A i \in 1..Len(stmt.cases) :
                AllErased(stmt.cases[i].consequent) =>
                    /\ out.cases[i].type = "SwitchCase"
                    /\ out.cases[i].consequent = <<>>
    /\ (stmt.type = "Declaration" /\ stmt.decl.type = "FunctionDeclaration"
            /\ stmt.decl.func.body # None
            /\ AllErased(stmt.decl.func.body[1].statements)) =>
          /\ out.decl.func.body # None
          /\ out.decl.func.body[1].type = "FunctionBody"
          /\ out.decl.func.body[1].statements = <<>>
    /\ (IsClassStmt(stmt) /\ AllMembersErased(stmt.decl.class.body.body)) =>
          /\ out.decl.class.body.type = "ClassBody"
          /\ out.decl.class.body.body = <<>>
    /\ IsClassStmt(stmt) =>
          \A i \in 1..Len(stmt.decl.class.body.body) :
              LET elem == stmt.decl.class.body.body[i]
              IN  (elem.type = "StaticBlock" /\ AllErased(elem.body)) =>
                      \E j \in 1..Len(out.decl.class.body.body) :
                          /\ out.decl.class.body.body[j].type = "StaticBlock"
                          /\ out.decl.class.body.body[j].span = elem.span
                          /\ out.decl.class.body.body[j].body = <<>>

\* C30: an erasure goes no further than the nearest statement list or
\* required statement position around it.  A block, function body, switch
\* case, static block or class body whose elements are all erased is lowered
\* to a node that is there, with an empty list.  A statement comes out
\* absent only when it is itself a declaration or a default export of
\* something erased (or one of the two TS export forms), never because of
\* an erasure further down; in a required position a statement always comes
\* out.
C30_ErasureStopsAtTheList ==
    Returned =>
        /\ rule = "lower_statement" =>
              /\ Result = None <=> Erasable(arg)
              /\ Result # None => ListParentKept(arg, Result[1])
        /\ rule = "lower_statement_or_empty" =>
              /\ Result.type = (IF Erasable(arg) THEN "EmptyStatement" ELSE arg.type)
        /\ (rule = "lower_expression" /\ arg.type = "ArrowFunctionExpression"
                /\ AllErased(arg.body.statements)) =>
              /\ Result.body.type = "FunctionBody"
              /\ Result.body.statements = <<>>

\* class x { static { enum E {} } } has been lowered: the static block is
\* there, and empty.
C30_Witness ==
    /\ Returned /\ rule = "lower_statement" /\ IsClassStmt(arg)
    /\ Len(arg.decl.class.body.body) = 1
    /\ arg.decl.class.body.body[1].type = "StaticBlock"
    /\ arg.decl.class.body.body[1].body # <<>>
    /\ AllErased(arg.decl.class.body.body[1].body)
    /\ Result # None
    /\ Result[1].decl.class.body.body[1].body = <<>>

\* A block of nothing but erased statements has been lowered to {}.
C30_WitnessBlock ==
    /\ Returned /\ rule = "lower_statement" /\ arg.type = "BlockStatement"
    /\ Len(arg.body) = MaxLen /\ AllErased(arg.body)
    /\ Result # None /\ Result[1].body = <<>>

\* A class of nothing but erased members has been lowered to a class with
\* an empty body.
C30_WitnessClassBody ==
    /\ Returned /\ rule = "lower_statement" /\ IsClassStmt(arg)
    /\ Len(arg.decl.class.body.body) = 2
    /\ AllMembersErased(arg.decl.class.body.body)
    /\ Result # None /\ Result[1].decl.class.body.body = <<>>

=============================================================================
